---- MODULE Spec2Model ----
(***************************************************************************)
(* EM2RS stepper-motor register client (em2rs-rs).                         *)
(*                                                                         *)
(* One client (session) at a time owns a Modbus channel; every public      *)
(* method of Em2rsClient is one action.  A method is computed by the       *)
(* operators below on a "machine" record m:                                *)
(*   m.regs   the registers of every device on the bus                     *)
(*   m.slave  the slave the channel currently addresses                    *)
(*   m.log    the channel calls made so far by the running method          *)
(*   m.oc     the channel's answers to the calls of this method, in order  *)
(*   m.res    the value the last returned function returned                *)
(* Rust's `?` is Try(call, LAMBDA m1 : rest).                              *)
(***************************************************************************)
EXTENDS Integers, Sequences, FiniteSets, TLC

VARIABLES
    regs,       \* device registers: [Slaves -> [Addrs -> 0..65535]]
    ctx_slave,  \* the slave the channel (tokio-modbus Context) addresses
    client,     \* the live Em2rsClient: [slave_id, config], or NoClient
    op,         \* name of the last method called ("none" before any call)
    args,       \* its arguments
    log,        \* the channel calls it made, in order
    res,        \* what it returned
    nops        \* number of methods called so far

vars == <<regs, ctx_slave, client, op, args, log, res, nops>>

(***************************************************************************)
(* Bounds of the model.                                                    *)
(***************************************************************************)
MaxOps == 1

(***************************************************************************)
(* registers.rs                                                            *)
(***************************************************************************)
PULSE_PER_REV == 1
MOTOR_DIRECTION == 7
MOTOR_INDUCTANCE == 9
FORCED_ENA == 15
SI1 == 325
SI2 == 327
SI3 == 329
SI4 == 331
SI5 == 333
SI6 == 335
SI7 == 337
DIGITAL_INPUT_STATUS == 377
PEAK_CURRENT == 401
VERSION_INFORMATION == 511
MOTION_STATUS == 4099
CONTROL_WORD == 6145
CURRENT_ALARM == 8707
PR_GLOBAL_CTRL_FCT == 24576
PR_CTRL == 24578
SOFT_LIMIT_P_H == 24582
SOFT_LIMIT_P_L == 24583
SOFT_LIMIT_N_H == 24584
SOFT_LIMIT_N_L == 24585
HOME_MODE == 24586
HOME_SWITCH_POS_HIGH == 24587
HOME_SWITCH_POS_LOW == 24588
HOMING_STOP_POS_HIGH == 24589
HOMING_STOP_POS_LOW == 24590
HOMING_HIGH_VELOCITY == 24591
HOMING_LOW_VELOCITY == 24592
HOMING_ACC == 24593
HOMING_DEC == 24594
HOMING_AUX == 24602
PATH0_BASE == 25088
PATH1_BASE == 25096
PATH2_BASE == 25104
PATH3_BASE == 25112
PATH4_BASE == 25120
PATH5_BASE == 25128
PATH6_BASE == 25136
PATH7_BASE == 25144
PATH8_BASE == 25152
PATH_CTRL_OFFSET == 0
PATH_POSITION_H_OFFSET == 1
PATH_POSITION_L_OFFSET == 2
PATH_VELOCITY_OFFSET == 3
PATH_ACC_OFFSET == 4
PATH_DEC_OFFSET == 5
PATH_PAUSE_TIME_OFFSET == 6
PATH_SPECIAL_PARAM_OFFSET == 7
SI_NC_INCR == 128
MS_FAULT == 1
MS_ENABLE == 2
MS_RUNNING == 4
MS_CMD_COMPLETE == 16
MS_PATH_COMPLETE == 32
MS_HOMING_COMPLETE == 64

None == [some |-> FALSE]
Some(x) == [some |-> TRUE, val |-> x]

\* get_path_base computing an address for every id
get_path_base_computed(path_id) == Some(PATH0_BASE + (path_id * 8))

\* get_path_base with blocks of four registers
get_path_base_stride4(path_id) ==
    IF path_id > 8 THEN None ELSE Some(PATH0_BASE + (path_id * 4))

get_path_base(path_id) ==
    CASE path_id = 0 -> Some(PATH0_BASE)
      [] path_id = 1 -> Some(PATH1_BASE)
      [] path_id = 2 -> Some(PATH2_BASE)
      [] path_id = 3 -> Some(PATH3_BASE)
      [] path_id = 4 -> Some(PATH4_BASE)
      [] path_id = 5 -> Some(PATH5_BASE)
      [] path_id = 6 -> Some(PATH6_BASE)
      [] path_id = 7 -> Some(PATH7_BASE)
      [] path_id = 8 -> Some(PATH8_BASE)
      [] OTHER -> None

(***************************************************************************)
(* types.rs: the wire enumerations (`as u16`) and the result type.         *)
(***************************************************************************)
Direction == {"Clockwise", "CounterClockwise"}

Direction_u16(dir) ==
    CASE dir = "Clockwise" -> 0
      [] dir = "CounterClockwise" -> 1

DigitalInputFunction ==
    {"Invalid", "AlarmClearing", "Enable", "TriggerCmd", "TriggerHoming",
     "Emergency", "JogPositive", "JogNegative", "Pot", "Not", "Org",
     "Add0", "Add1", "Add2", "Add3", "JogVelocity"}

DigitalInputFunction_u16(func) ==
    CASE func = "Invalid" -> 0
      [] func = "AlarmClearing" -> 7
      [] func = "Enable" -> 8
      [] func = "TriggerCmd" -> 32
      [] func = "TriggerHoming" -> 33
      [] func = "Emergency" -> 34
      [] func = "JogPositive" -> 35
      [] func = "JogNegative" -> 36
      [] func = "Pot" -> 37
      [] func = "Not" -> 38
      [] func = "Org" -> 39
      [] func = "Add0" -> 40
      [] func = "Add1" -> 41
      [] func = "Add2" -> 42
      [] func = "Add3" -> 43
      [] func = "JogVelocity" -> 44

DigitalOutputFunction ==
    {"Invalid", "CmdCompleted", "PathCompleted", "HomingCompleted",
     "InPosCompleted", "BrakeOutput", "AlarmOutput"}

\* DigitalOutputFunction with path-completed on the code of command-completed
DigitalOutputFunction_u16_shared(func) ==
    CASE func = "Invalid" -> 0
      [] func = "CmdCompleted" -> 32
      [] func = "PathCompleted" -> 32
      [] func = "HomingCompleted" -> 34
      [] func = "InPosCompleted" -> 35
      [] func = "BrakeOutput" -> 36
      [] func = "AlarmOutput" -> 37

DigitalOutputFunction_u16(func) ==
    CASE func = "Invalid" -> 0
      [] func = "CmdCompleted" -> 32
      [] func = "PathCompleted" -> 33
      [] func = "HomingCompleted" -> 34
      [] func = "InPosCompleted" -> 35
      [] func = "BrakeOutput" -> 36
      [] func = "AlarmOutput" -> 37

ControlWord ==
    {"ResetCurrentAlarm", "ResetHistoryAlarm", "SaveParamEeprom", "ParamReset",
     "FactoryReset", "SaveMappingEeprom", "JogClockwise", "JogCounterClockwise"}

ControlWord_u16(cw) ==
    CASE cw = "ResetCurrentAlarm" -> 4369
      [] cw = "ResetHistoryAlarm" -> 4386
      [] cw = "SaveParamEeprom" -> 8721
      [] cw = "ParamReset" -> 8738
      [] cw = "FactoryReset" -> 8755
      [] cw = "SaveMappingEeprom" -> 8772
      [] cw = "JogClockwise" -> 16385
      [] cw = "JogCounterClockwise" -> 16386

HomingMethod == {"LimitSwitch", "HomeSwitch"}

HomingMethod_u16(method) ==
    CASE method = "LimitSwitch" -> 0
      [] method = "HomeSwitch" -> 4

PrControlCommand == {"RunThePath", "Homing", "ManualZero", "QuickStop"}

PrControlCommand_u16(cmd) ==
    CASE cmd = "RunThePath" -> 16
      [] cmd = "Homing" -> 32
      [] cmd = "ManualZero" -> 33
      [] cmd = "QuickStop" -> 64

PathMotionType == {"NoAction", "PositionPositioning", "VelocityMovement", "Homing"}

PathMotionType_u16(pmt) ==
    CASE pmt = "NoAction" -> 0
      [] pmt = "PositionPositioning" -> 1
      [] pmt = "VelocityMovement" -> 2
      [] pmt = "Homing" -> 3

\* Result<T>: Ok(val) or Err(Em2rsError); a panic is kept apart from both.
Ok(v) == [kind |-> "Ok", val |-> v]
Err(variant, v) == [kind |-> "Err", err |-> variant, val |-> v]
Panic == [kind |-> "Panic"]
Unit == "()"
IsOk(m) == m.res.kind = "Ok"
IsErr(m) == m.res.kind # "Ok"
Return(m, r) == [m EXCEPT !.res = r]

\* `e?` and then K: e is evaluated once; when it returned an error (or
\* panicked) that is the result, otherwise K runs on the machine e left
Try(e, K(_)) == CHOOSE r \in {IF IsErr(x) THEN x ELSE K(x) : x \in {e}} : TRUE

(***************************************************************************)
(* Word arithmetic.                                                        *)
(***************************************************************************)
Pow2(k) == 2 ^ k
\* w | (1 << k)
SetBit(w, k) == IF (w \div Pow2(k)) % 2 = 1 THEN w ELSE w + Pow2(k)
\* w & !(1 << k)
ClearBit(w, k) == IF (w \div Pow2(k)) % 2 = 1 THEN w - Pow2(k) ELSE w
\* w & mask # 0, for a one-bit mask
TestMask(w, mask) == (w \div mask) % 2 = 1
\* the high word taken with a shift of 8 instead of 16
HighWord_shift8(x) == (x \div 256) % 65536
\* ((x >> 16) & 0xFFFF) as u16
HighWord(x) == (x \div 65536) % 65536
\* (x & 0xFFFF) as u16
LowWord(x) == x % 65536
Min(a, b) == IF a <= b THEN a ELSE b

(***************************************************************************)
(* f32 arithmetic, as far as set_peak_current needs it.  A finite f32 is   *)
(* [neg, m, e], the number (-1)^neg * m * 2^e with m < 2^24.               *)
(***************************************************************************)
F32(neg, m, e) == [neg |-> neg, m |-> m, e |-> e]

\* number of low bits to drop so that n fits a 24-bit significand
RECURSIVE F32Shift(_)
F32Shift(n) == IF n < Pow2(24) THEN 0 ELSE 1 + F32Shift(n \div 2)

\* n * 2^e rounded to the nearest f32, ties to even
F32Round(neg, n, e) ==
    LET s == F32Shift(n)
        q == n \div Pow2(s)
        r == n % Pow2(s)
        up == s > 0 /\ (r * 2 > Pow2(s) \/ (r * 2 = Pow2(s) /\ q % 2 = 1))
    IN  F32(neg, IF up THEN q + 1 ELSE q, e + s)

F32Mul(a, b) == F32Round(a.neg # b.neg, a.m * b.m, a.e + b.e)

\* the literals 1.4 and 10.0 as f32
F32_1_4 == F32(FALSE, 11744051, -23)
F32_10_0 == F32(FALSE, 10, 0)

\* `x as u16`: toward zero, saturating at 0 and 65535
F32_as_u16(a) ==
    IF a.neg \/ a.m = 0 THEN 0
    ELSE IF a.e >= 16 THEN 65535
    ELSE IF a.e >= 0 THEN Min(a.m * Pow2(a.e), 65535)
    ELSE IF a.e <= -30 THEN 0
    ELSE Min(a.m \div Pow2(-a.e), 65535)

(***************************************************************************)
(* The channel (tokio-modbus Context) and the devices behind it.           *)
(* A register call is answered "ok", "exc" (the device answers with an     *)
(* exception code: Ok(Err(code))) or "err" (transport failure: Err(e)); a  *)
(* read may also be answered "empty" (Ok(Ok(vec![]))).  Only an "ok" write *)
(* changes the register of the addressed device.                           *)
(***************************************************************************)
Slaves == {1, 2}

Addrs ==
    {PULSE_PER_REV, MOTOR_DIRECTION, MOTOR_INDUCTANCE, FORCED_ENA,
     SI1, SI2, SI3, SI4, SI5, SI6, SI7, DIGITAL_INPUT_STATUS, PEAK_CURRENT,
     VERSION_INFORMATION, MOTION_STATUS, CONTROL_WORD, CURRENT_ALARM,
     PR_GLOBAL_CTRL_FCT, PR_CTRL, SOFT_LIMIT_P_H, SOFT_LIMIT_P_L,
     SOFT_LIMIT_N_H, SOFT_LIMIT_N_L, HOME_MODE, HOME_SWITCH_POS_HIGH,
     HOME_SWITCH_POS_LOW, HOMING_STOP_POS_HIGH, HOMING_STOP_POS_LOW,
     HOMING_HIGH_VELOCITY, HOMING_LOW_VELOCITY, HOMING_ACC, HOMING_DEC,
     HOMING_AUX}
    \cup UNION {{get_path_base(p).val + o : o \in 0..7} : p \in 0..8}

ctx_set_slave(m, slave) ==
    [m EXCEPT !.slave = slave,
              !.log = Append(@, [call |-> "set_slave", slave |-> slave])]

ctx_write_single_register(m, addr, value) ==
    LET resp == m.oc[m.n + 1]
    IN  [m EXCEPT
          !.n = @ + 1,
          !.log = Append(@, [call |-> "write", slave |-> m.slave, addr |-> addr,
                             value |-> value, resp |-> resp]),
          !.regs = IF resp = "ok" THEN [@ EXCEPT ![m.slave][addr] = value] ELSE @,
          !.res = CASE resp = "ok" -> Ok(Ok(Unit))
                    [] resp = "exc" -> Ok(Err("ExceptionCode", "exception"))
                    [] OTHER -> Err("tokio_modbus::Error", "transport")]

ctx_read_holding_registers(m, addr, count) ==
    LET resp == m.oc[m.n + 1]
        data == [i \in 1..count |-> m.regs[m.slave][addr + i - 1]]
    IN  [m EXCEPT
          !.n = @ + 1,
          !.log = Append(@, [call |-> "read", slave |-> m.slave, addr |-> addr,
                             value |-> count, resp |-> resp]),
          !.res = CASE resp = "ok" -> Ok(Ok(data))
                    [] resp = "empty" -> Ok(Ok(<<>>))
                    [] resp = "exc" -> Ok(Err("ExceptionCode", "exception"))
                    [] OTHER -> Err("tokio_modbus::Error", "transport")]

(***************************************************************************)
(* client.rs: the private register accessors.                              *)
(***************************************************************************)
\* `ctx.write_single_register(addr, value).await?` returns on a transport
\* error; `let _ =` then drops the inner Result, exception code included.
write_register(m, addr, value) ==
    LET r == ctx_write_single_register(m, addr, value)
    IN  IF r.res.kind # "Ok" THEN Return(r, Err("ModbusProtocol", r.res.val))
        ELSE Return(r, Ok(Unit))

\* `ctx.read_holding_registers(addr, count).await??`
read_registers(m, addr, count) ==
    LET r == ctx_read_holding_registers(m, addr, count)
    IN  IF r.res.kind # "Ok" THEN Return(r, Err("ModbusProtocol", r.res.val))
        ELSE IF r.res.val.kind # "Ok" THEN Return(r, Err("ModbusException", r.res.val.val))
        ELSE Return(r, Ok(r.res.val.val))

\* `data[0]`: the first word, or a panic when the response holds none
Index0(m) ==
    IF Len(m.res.val) = 0 THEN Return(m, Panic) ELSE Return(m, Ok(m.res.val[1]))

(***************************************************************************)
(* client.rs: the public methods of Em2rsClient, in source order.          *)
(***************************************************************************)
set_peak_current(m, phase_current) ==
    LET peak_current == F32_as_u16(F32Mul(F32Mul(phase_current, F32_1_4), F32_10_0))
    IN  write_register(m, PEAK_CURRENT, peak_current)

\* set_motor_inductance rejecting a value above 10000 instead of clamping it
set_motor_inductance_rejecting(m, inductance) ==
    IF inductance > 10000 THEN Return(m, Err("InvalidParameter", inductance))
    ELSE write_register(m, MOTOR_INDUCTANCE, inductance)

set_motor_inductance(m, inductance) ==
    LET ind == Min(inductance, 10000)
    IN  write_register(m, MOTOR_INDUCTANCE, ind)

\* init setting the inductance before the peak current
init_inductance_first(m, self) ==
    Try(ctx_set_slave(m, self.slave_id), LAMBDA m0 :
    Try(write_register(m0, PULSE_PER_REV, self.config.pulse_per_rev), LAMBDA m1 :
    Try(write_register(m1, MOTOR_DIRECTION, Direction_u16(self.config.direction)), LAMBDA m2 :
    Try(set_motor_inductance(m2, self.config.inductance), LAMBDA m3 :
    Try(set_peak_current(m3, self.config.phase_current), LAMBDA m4 :
    Return(m4, Ok(Unit)))))))

init(m, self) ==
    Try(ctx_set_slave(m, self.slave_id), LAMBDA m0 :
    Try(write_register(m0, PULSE_PER_REV, self.config.pulse_per_rev), LAMBDA m1 :
    Try(write_register(m1, MOTOR_DIRECTION, Direction_u16(self.config.direction)), LAMBDA m2 :
    Try(set_peak_current(m2, self.config.phase_current), LAMBDA m3 :
    Try(set_motor_inductance(m3, self.config.inductance), LAMBDA m4 :
    Return(m4, Ok(Unit)))))))

forced_enable_by_software(m, enable) ==
    LET value == IF enable THEN 1 ELSE 0
    IN  write_register(m, FORCED_ENA, value)

set_control_word(m, command) ==
    write_register(m, CONTROL_WORD, ControlWord_u16(command))

save_param_eeprom(m) == set_control_word(m, "SaveParamEeprom")

param_reset(m) == set_control_word(m, "ParamReset")

factory_reset(m) == set_control_word(m, "FactoryReset")

save_mapping_eeprom(m) == set_control_word(m, "SaveMappingEeprom")

\* jog_motor ignoring the direction
jog_motor_clockwise_only(m, direction) == set_control_word(m, "JogClockwise")


jog_motor(m, direction) ==
    LET command == CASE direction = "Clockwise" -> "JogClockwise"
                     [] direction = "CounterClockwise" -> "JogCounterClockwise"
    IN  set_control_word(m, command)

\* configure_input with consecutive instead of every other register
configure_input_stride1(m, input_no, function, normally_closed) ==
    IF ~(input_no \in 1..7) THEN Return(m, Err("InvalidDigitalInput", input_no))
    ELSE LET config == DigitalInputFunction_u16(function)
                        + (IF normally_closed THEN SI_NC_INCR ELSE 0)
             register == SI1 + (input_no - 1)
         IN  write_register(m, register, config)

\* configure_input with the input number clamped into 1..7 instead of rejected
configure_input_clamped(m, input_no, function, normally_closed) ==
    LET config == DigitalInputFunction_u16(function)
                    + (IF normally_closed THEN SI_NC_INCR ELSE 0)
        n == IF input_no < 1 THEN 1 ELSE IF input_no > 7 THEN 7 ELSE input_no
        register == SI1 + ((n - 1) * 2)
    IN  write_register(m, register, config)

configure_input(m, input_no, function, normally_closed) ==
    IF ~(input_no \in 1..7) THEN Return(m, Err("InvalidDigitalInput", input_no))
    ELSE LET config == DigitalInputFunction_u16(function)
                        + (IF normally_closed THEN SI_NC_INCR ELSE 0)
             register == SI1 + ((input_no - 1) * 2)
         IN  write_register(m, register, config)

get_input_status(m) ==
    Try(read_registers(m, DIGITAL_INPUT_STATUS, 1), LAMBDA data :
    Index0(data))

get_motion_status(m) ==
    Try(read_registers(m, MOTION_STATUS, 1), LAMBDA data :
    Index0(data))

is_fault(status) == TestMask(status, MS_FAULT)

is_enabled(status) == TestMask(status, MS_ENABLE)

is_running(status) == TestMask(status, MS_RUNNING)

\* is_cmd_complete testing bit 3
is_cmd_complete_bit3(status) == TestMask(status, 8)

is_cmd_complete(status) == TestMask(status, MS_CMD_COMPLETE)

is_path_complete(status) == TestMask(status, MS_PATH_COMPLETE)

\* is_homing_complete testing the path-complete bit
is_homing_complete_path_bit(status) == TestMask(status, MS_PATH_COMPLETE)

is_homing_complete(status) == TestMask(status, MS_HOMING_COMPLETE)

\* every predicate of a MotionStatus word
MotionStatus(status) ==
    [is_fault |-> is_fault(status),
     is_enabled |-> is_enabled(status),
     is_running |-> is_running(status),
     is_cmd_complete |-> is_cmd_complete(status),
     is_path_complete |-> is_path_complete(status),
     is_homing_complete |-> is_homing_complete(status)]

OVER_CURRENT == 1
OVER_VOLTAGE == 2
CURRENT_SAMPLING_FAULT == 64
FAILED_LOCK_SHAFT == 128
EEPROM_FAULT == 512
AUTOTUNING_FAULT == 256

has_over_current(alarm) == TestMask(alarm, OVER_CURRENT)

has_over_voltage(alarm) == TestMask(alarm, OVER_VOLTAGE)

has_current_sampling_fault(alarm) == TestMask(alarm, CURRENT_SAMPLING_FAULT)

has_failed_lock_shaft(alarm) == TestMask(alarm, FAILED_LOCK_SHAFT)

has_eeprom_fault(alarm) == TestMask(alarm, EEPROM_FAULT)

has_autotuning_fault(alarm) == TestMask(alarm, AUTOTUNING_FAULT)

\* every predicate of a CurrentAlarm word
CurrentAlarm(alarm) ==
    [has_over_current |-> has_over_current(alarm),
     has_over_voltage |-> has_over_voltage(alarm),
     has_current_sampling_fault |-> has_current_sampling_fault(alarm),
     has_failed_lock_shaft |-> has_failed_lock_shaft(alarm),
     has_eeprom_fault |-> has_eeprom_fault(alarm),
     has_autotuning_fault |-> has_autotuning_fault(alarm)]

is_path_completed(m) ==
    Try(get_motion_status(m), LAMBDA status :
    Return(status, Ok(is_path_complete(status.res.val))))

is_homing_completed(m) ==
    Try(get_motion_status(m), LAMBDA status :
    Return(status, Ok(is_homing_complete(status.res.val))))

set_ctrg_effective_edge(m, double_edge) ==
    Try(read_registers(m, PR_GLOBAL_CTRL_FCT, 1), LAMBDA data :
    Try(Index0(data), LAMBDA word :
    LET reg == IF double_edge THEN SetBit(word.res.val, 0) ELSE ClearBit(word.res.val, 0)
    IN  write_register(word, PR_GLOBAL_CTRL_FCT, reg)))

soft_limit_control(m, enable) ==
    Try(read_registers(m, PR_GLOBAL_CTRL_FCT, 1), LAMBDA data :
    Try(Index0(data), LAMBDA word :
    LET reg == IF enable THEN SetBit(word.res.val, 1) ELSE ClearBit(word.res.val, 1)
    IN  write_register(word, PR_GLOBAL_CTRL_FCT, reg)))

set_soft_limit_max(m, max) ==
    LET lsb == LowWord(max)
        msb == HighWord(max)
    IN  Try(write_register(m, SOFT_LIMIT_P_H, msb), LAMBDA m1 :
        write_register(m1, SOFT_LIMIT_P_L, lsb))

\* set_soft_limit_min writing the high word only
set_soft_limit_min_high_only(m, min) ==
    write_register(m, SOFT_LIMIT_N_H, HighWord(min))


set_soft_limit_min(m, min) ==
    LET lsb == LowWord(min)
        msb == HighWord(min)
    IN  Try(write_register(m, SOFT_LIMIT_N_H, msb), LAMBDA m1 :
        write_register(m1, SOFT_LIMIT_N_L, lsb))

homing_power_up_control(m, enable) ==
    Try(read_registers(m, PR_GLOBAL_CTRL_FCT, 1), LAMBDA data :
    Try(Index0(data), LAMBDA word :
    LET reg == IF enable THEN SetBit(word.res.val, 2) ELSE ClearBit(word.res.val, 2)
    IN  write_register(word, PR_GLOBAL_CTRL_FCT, reg)))

\* set_ctrg_trigger_type writing its own bit alone
set_ctrg_trigger_type_overwrite(m, level_trigger) ==
    Try(read_registers(m, PR_GLOBAL_CTRL_FCT, 1), LAMBDA data :
    Try(Index0(data), LAMBDA word :
    write_register(word, PR_GLOBAL_CTRL_FCT, IF level_trigger THEN 16 ELSE 0)))

set_ctrg_trigger_type(m, level_trigger) ==
    Try(read_registers(m, PR_GLOBAL_CTRL_FCT, 1), LAMBDA data :
    Try(Index0(data), LAMBDA word :
    LET reg == IF level_trigger THEN SetBit(word.res.val, 4) ELSE ClearBit(word.res.val, 4)
    IN  write_register(word, PR_GLOBAL_CTRL_FCT, reg)))

\* configure_homing with the move-after flag in bit 0, the bit of the direction
configure_homing_flag_bit0(m, direction, move_to_pos, method) ==
    LET config == Direction_u16(direction)
                    + (IF move_to_pos THEN 1 ELSE 0)
                    + HomingMethod_u16(method)
    IN  Try(write_register(m, HOME_MODE, config), LAMBDA m1 :
        write_register(m1, HOMING_AUX, 2))


\* configure_homing without the write of 0x601A
configure_homing_mode_only(m, direction, move_to_pos, method) ==
    LET config == Direction_u16(direction)
                    + (IF move_to_pos THEN 2 ELSE 0)
                    + HomingMethod_u16(method)
    IN  write_register(m, HOME_MODE, config)

configure_homing(m, direction, move_to_pos, method) ==
    LET config == Direction_u16(direction)
                    + (IF move_to_pos THEN 2 ELSE 0)
                    + HomingMethod_u16(method)
    IN  Try(write_register(m, HOME_MODE, config), LAMBDA m1 :
        write_register(m1, HOMING_AUX, 2))

\* set_homing_position reading the low word back after writing it
set_homing_position_verified(m, position) ==
    LET lsb == LowWord(position)
        msb == HighWord(position)
    IN  Try(write_register(m, HOME_SWITCH_POS_HIGH, msb), LAMBDA m1 :
        Try(write_register(m1, HOME_SWITCH_POS_LOW, lsb), LAMBDA m2 :
        Try(read_registers(m2, HOME_SWITCH_POS_LOW, 1), LAMBDA data :
        Return(data, Ok(Unit)))))

set_homing_position(m, position) ==
    LET lsb == LowWord(position)
        msb == HighWord(position)
    IN  Try(write_register(m, HOME_SWITCH_POS_HIGH, msb), LAMBDA m1 :
        write_register(m1, HOME_SWITCH_POS_LOW, lsb))

set_homing_stop_position(m, position) ==
    LET lsb == LowWord(position)
        msb == HighWord(position)
    IN  Try(write_register(m, HOMING_STOP_POS_HIGH, msb), LAMBDA m1 :
        write_register(m1, HOMING_STOP_POS_LOW, lsb))

set_homing_high_velocity(m, rpm) == write_register(m, HOMING_HIGH_VELOCITY, rpm)

set_homing_low_velocity(m, rpm) == write_register(m, HOMING_LOW_VELOCITY, rpm)

set_homing_acceleration(m, acc) == write_register(m, HOMING_ACC, acc)

set_homing_deceleration(m, dec) == write_register(m, HOMING_DEC, dec)

apply_homing_config(m, config) ==
    Try(configure_input(m, config.input_no, config.function, config.normally_closed),
        LAMBDA m1 :
    Try(configure_homing(m1, config.direction, config.move_to_pos_after, config.method),
        LAMBDA m2 :
    Try(set_homing_position(m2, config.position), LAMBDA m3 :
    Try(set_homing_stop_position(m3, config.position_stop), LAMBDA m4 :
    Try(set_homing_high_velocity(m4, config.high_velocity), LAMBDA m5 :
    Try(set_homing_low_velocity(m5, config.low_velocity), LAMBDA m6 :
    Try(set_homing_acceleration(m6, config.acceleration), LAMBDA m7 :
    Try(set_homing_deceleration(m7, config.deceleration), LAMBDA m8 :
    Return(m8, Ok(Unit))))))))))

set_pr_control(m, command) ==
    write_register(m, PR_CTRL, PrControlCommand_u16(command))

start_homing(m) == set_pr_control(m, "Homing")

\* start_path without the path id in the command word
start_path_bare(m, path_id) ==
    IF path_id > 8 THEN Return(m, Err("InvalidPath", path_id))
    ELSE write_register(m, PR_CTRL, PrControlCommand_u16("RunThePath"))


\* start_path with the bound of the path id off by one
start_path_upto9(m, path_id) ==
    IF path_id > 9 THEN Return(m, Err("InvalidPath", path_id))
    ELSE LET command_value == PrControlCommand_u16("RunThePath") + path_id
         IN  write_register(m, PR_CTRL, command_value)

\* start_path without the check of the path id
start_path_unchecked(m, path_id) ==
    write_register(m, PR_CTRL, PrControlCommand_u16("RunThePath") + path_id)

start_path(m, path_id) ==
    IF path_id > 8 THEN Return(m, Err("InvalidPath", path_id))
    ELSE LET command_value == PrControlCommand_u16("RunThePath") + path_id
         IN  write_register(m, PR_CTRL, command_value)

\* stop_motor of the non-blocking client sending the homing command
stop_motor_homing(m) == set_pr_control(m, "Homing")

stop_motor(m) == set_pr_control(m, "QuickStop")

manual_zero(m) == set_pr_control(m, "ManualZero")

\* configure_path_motion with bit 0x0040 standing for absolute
configure_path_motion_absolute_bit(m, path_id, motion_type, interrupt, overlap, absolute, jump, jump_to) ==
    LET base == get_path_base(path_id)
    IN  IF ~base.some THEN Return(m, Err("InvalidPath", path_id))
        ELSE LET config0 == PathMotionType_u16(motion_type)
                             + (IF interrupt THEN 16 ELSE 0)
                             + (IF overlap THEN 32 ELSE 0)
                             + (IF absolute THEN 64 ELSE 0)
                 config == IF jump THEN config0 + 16384 + ((jump_to % 16) * 256)
                           ELSE config0
             IN  write_register(m, base.val, config)

\* configure_path_motion shifting the jump target without masking it
configure_path_motion_unmasked(m, path_id, motion_type, interrupt, overlap, absolute, jump, jump_to) ==
    LET base == get_path_base(path_id)
    IN  IF ~base.some THEN Return(m, Err("InvalidPath", path_id))
        ELSE LET config0 == PathMotionType_u16(motion_type)
                             + (IF interrupt THEN 16 ELSE 0)
                             + (IF overlap THEN 32 ELSE 0)
                             + (IF absolute THEN 0 ELSE 64)
                 config == IF jump THEN (config0 + 16384 + (jump_to * 256)) % 65536
                           ELSE config0
             IN  write_register(m, base.val, config)

configure_path_motion(m, path_id, motion_type, interrupt, overlap, absolute, jump, jump_to) ==
    LET base == get_path_base(path_id)
    IN  IF ~base.some THEN Return(m, Err("InvalidPath", path_id))
        ELSE LET config0 == PathMotionType_u16(motion_type)
                             + (IF interrupt THEN 16 ELSE 0)
                             + (IF overlap THEN 32 ELSE 0)
                             + (IF absolute THEN 0 ELSE 64)
                 config == IF jump THEN config0 + 16384 + ((jump_to % 16) * 256)
                           ELSE config0
             IN  write_register(m, base.val, config)

\* set_path_position writing the low word only
set_path_position_low_only(m, path_id, position) ==
    LET base == get_path_base(path_id)
    IN  IF ~base.some THEN Return(m, Err("InvalidPath", path_id))
        ELSE write_register(m, base.val + PATH_POSITION_L_OFFSET, LowWord(position))

set_path_position(m, path_id, position) ==
    LET base == get_path_base(path_id)
    IN  IF ~base.some THEN Return(m, Err("InvalidPath", path_id))
        ELSE LET lsb == LowWord(position)
                 msb == HighWord(position)
             IN  Try(write_register(m, base.val + PATH_POSITION_H_OFFSET, msb), LAMBDA m1 :
                 write_register(m1, base.val + PATH_POSITION_L_OFFSET, lsb))

set_path_velocity(m, path_id, rpm) ==
    LET base == get_path_base(path_id)
    IN  IF ~base.some THEN Return(m, Err("InvalidPath", path_id))
        ELSE write_register(m, base.val + PATH_VELOCITY_OFFSET, rpm)

set_path_acceleration(m, path_id, acc) ==
    LET base == get_path_base(path_id)
    IN  IF ~base.some THEN Return(m, Err("InvalidPath", path_id))
        ELSE write_register(m, base.val + PATH_ACC_OFFSET, acc)

set_path_deceleration(m, path_id, dec) ==
    LET base == get_path_base(path_id)
    IN  IF ~base.some THEN Return(m, Err("InvalidPath", path_id))
        ELSE write_register(m, base.val + PATH_DEC_OFFSET, dec)

set_path_pause_time(m, path_id, ms) ==
    LET base == get_path_base(path_id)
    IN  IF ~base.some THEN Return(m, Err("InvalidPath", path_id))
        ELSE write_register(m, base.val + PATH_PAUSE_TIME_OFFSET, ms)

\* apply_path_config setting the velocity before the position
apply_path_config_velocity_first(m, config) ==
    Try(configure_path_motion(m, config.path_id, "PositionPositioning",
                              FALSE, FALSE, config.absolute_position, FALSE, 0),
        LAMBDA m1 :
    Try(set_path_velocity(m1, config.path_id, config.velocity), LAMBDA m2 :
    Try(set_path_position(m2, config.path_id, config.position), LAMBDA m3 :
    Try(set_path_acceleration(m3, config.path_id, config.acceleration), LAMBDA m4 :
    Try(set_path_deceleration(m4, config.path_id, config.deceleration), LAMBDA m5 :
    Try(IF config.pause_time > 0
        THEN set_path_pause_time(m5, config.path_id, config.pause_time)
        ELSE m5,
        LAMBDA m6 :
    Return(m6, Ok(Unit))))))))

\* apply_path_config writing the pause time whatever its value
apply_path_config_always_pause(m, config) ==
    Try(configure_path_motion(m, config.path_id, "PositionPositioning",
                              FALSE, FALSE, config.absolute_position, FALSE, 0),
        LAMBDA m1 :
    Try(set_path_position(m1, config.path_id, config.position), LAMBDA m2 :
    Try(set_path_velocity(m2, config.path_id, config.velocity), LAMBDA m3 :
    Try(set_path_acceleration(m3, config.path_id, config.acceleration), LAMBDA m4 :
    Try(set_path_deceleration(m4, config.path_id, config.deceleration), LAMBDA m5 :
    Try(set_path_pause_time(m5, config.path_id, config.pause_time), LAMBDA m6 :
    Return(m6, Ok(Unit))))))))

\* apply_path_config skipping the velocity the device already holds
apply_path_config_skip_unchanged(m, config) ==
    Try(configure_path_motion(m, config.path_id, "PositionPositioning",
                              FALSE, FALSE, config.absolute_position, FALSE, 0),
        LAMBDA m1 :
    Try(set_path_position(m1, config.path_id, config.position), LAMBDA m2 :
    Try(IF m2.regs[m2.slave][get_path_base(config.path_id).val + PATH_VELOCITY_OFFSET]
            = config.velocity
        THEN m2
        ELSE set_path_velocity(m2, config.path_id, config.velocity),
        LAMBDA m3 :
    Try(set_path_acceleration(m3, config.path_id, config.acceleration), LAMBDA m4 :
    Try(set_path_deceleration(m4, config.path_id, config.deceleration), LAMBDA m5 :
    Try(IF config.pause_time > 0
        THEN set_path_pause_time(m5, config.path_id, config.pause_time)
        ELSE m5,
        LAMBDA m6 :
    Return(m6, Ok(Unit))))))))

apply_path_config(m, config) ==
    Try(configure_path_motion(m, config.path_id, "PositionPositioning",
                              FALSE, FALSE, config.absolute_position, FALSE, 0),
        LAMBDA m1 :
    Try(set_path_position(m1, config.path_id, config.position), LAMBDA m2 :
    Try(set_path_velocity(m2, config.path_id, config.velocity), LAMBDA m3 :
    Try(set_path_acceleration(m3, config.path_id, config.acceleration), LAMBDA m4 :
    Try(set_path_deceleration(m4, config.path_id, config.deceleration), LAMBDA m5 :
    Try(IF config.pause_time > 0
        THEN set_path_pause_time(m5, config.path_id, config.pause_time)
        ELSE m5,
        LAMBDA m6 :
    Return(m6, Ok(Unit))))))))

get_version(m) ==
    Try(read_registers(m, VERSION_INFORMATION, 1), LAMBDA data :
    Index0(data))

\* get_current_alarm reading the motion status register
get_current_alarm_of_status(m) ==
    Try(read_registers(m, MOTION_STATUS, 1), LAMBDA data :
    Index0(data))

get_current_alarm(m) ==
    Try(read_registers(m, CURRENT_ALARM, 1), LAMBDA data :
    Index0(data))

(***************************************************************************)
(* sync.rs: the methods of Em2rsSyncClient, in source order.  Each method   *)
(* is one arm; a is the record of its arguments.  The blocking channel     *)
(* offers the same three calls as the non-blocking one.                    *)
(***************************************************************************)
RECURSIVE Em2rsSyncClient(_, _, _)
Em2rsSyncClient(call, m, a) ==
    CASE call = "init" ->
         (LET self == a.self
          IN
          Try(ctx_set_slave(m, self.slave_id), LAMBDA m0 :
          Try(Em2rsSyncClient("write_register", m0, [addr |-> PULSE_PER_REV, value |-> self.config.pulse_per_rev]), LAMBDA m1 :
          Try(Em2rsSyncClient("write_register", m1, [addr |-> MOTOR_DIRECTION, value |-> Direction_u16(self.config.direction)]), LAMBDA m2 :
          Try(Em2rsSyncClient("set_peak_current", m2, [phase_current |-> self.config.phase_current]), LAMBDA m3 :
          Try(Em2rsSyncClient("set_motor_inductance", m3, [inductance |-> self.config.inductance]), LAMBDA m4 :
          Return(m4, Ok(Unit))))))))
      [] call = "write_register" ->
         (LET addr == a.addr
              value == a.value
          IN
          LET r == ctx_write_single_register(m, addr, value)
          IN  IF r.res.kind # "Ok" THEN Return(r, Err("ModbusProtocol", r.res.val))
              ELSE Return(r, Ok(Unit)))
      [] call = "read_registers" ->
         (LET addr == a.addr
              count == a.count
          IN
          LET r == ctx_read_holding_registers(m, addr, count)
          IN  IF r.res.kind # "Ok" THEN Return(r, Err("ModbusProtocol", r.res.val))
              ELSE IF r.res.val.kind # "Ok" THEN Return(r, Err("ModbusException", r.res.val.val))
              ELSE Return(r, Ok(r.res.val.val)))
      [] call = "set_peak_current" ->
         (LET phase_current == a.phase_current
          IN
          LET peak_current == F32_as_u16(F32Mul(F32Mul(phase_current, F32_1_4), F32_10_0))
          IN  Em2rsSyncClient("write_register", m, [addr |-> PEAK_CURRENT, value |-> peak_current]))
      [] call = "set_motor_inductance" ->
         (LET inductance == a.inductance
          IN
          LET ind == Min(inductance, 10000)
          IN  Em2rsSyncClient("write_register", m, [addr |-> MOTOR_INDUCTANCE, value |-> ind]))
      [] call = "forced_enable_by_software" ->
         (LET enable == a.enable
          IN
          LET value == IF enable THEN 1 ELSE 0
          IN  Em2rsSyncClient("write_register", m, [addr |-> FORCED_ENA, value |-> value]))
      [] call = "set_control_word" ->
         (LET command == a.command
          IN
          Em2rsSyncClient("write_register", m, [addr |-> CONTROL_WORD, value |-> ControlWord_u16(command)]))
      [] call = "save_param_eeprom" ->
         (Em2rsSyncClient("set_control_word", m, [command |-> "SaveParamEeprom"]))
      [] call = "param_reset" ->
         (Em2rsSyncClient("set_control_word", m, [command |-> "ParamReset"]))
      [] call = "factory_reset" ->
         (Em2rsSyncClient("set_control_word", m, [command |-> "FactoryReset"]))
      [] call = "save_mapping_eeprom" ->
         (Em2rsSyncClient("set_control_word", m, [command |-> "SaveMappingEeprom"]))
      [] call = "jog_motor" ->
         (LET direction == a.direction
          IN
          LET command == CASE direction = "Clockwise" -> "JogClockwise"
                           [] direction = "CounterClockwise" -> "JogCounterClockwise"
          IN  Em2rsSyncClient("set_control_word", m, [command |-> command]))
      [] call = "configure_input" ->
         (LET input_no == a.input_no
              function == a.function
              normally_closed == a.normally_closed
          IN
          IF ~(input_no \in 1..7) THEN Return(m, Err("InvalidDigitalInput", input_no))
          ELSE LET config == DigitalInputFunction_u16(function)
                              + (IF normally_closed THEN SI_NC_INCR ELSE 0)
                   register == SI1 + ((input_no - 1) * 2)
               IN  Em2rsSyncClient("write_register", m, [addr |-> register, value |-> config]))
      [] call = "get_input_status" ->
         (Try(Em2rsSyncClient("read_registers", m, [addr |-> DIGITAL_INPUT_STATUS, count |-> 1]), LAMBDA data :
          Index0(data)))
      [] call = "get_motion_status" ->
         (Try(Em2rsSyncClient("read_registers", m, [addr |-> MOTION_STATUS, count |-> 1]), LAMBDA data :
          Index0(data)))
      [] call = "is_path_completed" ->
         (Try(Em2rsSyncClient("get_motion_status", m, <<>>), LAMBDA status :
          Return(status, Ok(is_path_complete(status.res.val)))))
      [] call = "is_homing_completed" ->
         (Try(Em2rsSyncClient("get_motion_status", m, <<>>), LAMBDA status :
          Return(status, Ok(is_homing_complete(status.res.val)))))
      [] call = "set_ctrg_effective_edge" ->
         (LET double_edge == a.double_edge
          IN
          Try(Em2rsSyncClient("read_registers", m, [addr |-> PR_GLOBAL_CTRL_FCT, count |-> 1]), LAMBDA data :
          Try(Index0(data), LAMBDA word :
          LET reg == IF double_edge THEN SetBit(word.res.val, 0) ELSE ClearBit(word.res.val, 0)
          IN  Em2rsSyncClient("write_register", word, [addr |-> PR_GLOBAL_CTRL_FCT, value |-> reg]))))
      [] call = "soft_limit_control" ->
         (LET enable == a.enable
          IN
          Try(Em2rsSyncClient("read_registers", m, [addr |-> PR_GLOBAL_CTRL_FCT, count |-> 1]), LAMBDA data :
          Try(Index0(data), LAMBDA word :
          LET reg == IF enable THEN SetBit(word.res.val, 1) ELSE ClearBit(word.res.val, 1)
          IN  Em2rsSyncClient("write_register", word, [addr |-> PR_GLOBAL_CTRL_FCT, value |-> reg]))))
      [] call = "set_soft_limit_max" ->
         (LET max == a.max
          IN
          LET lsb == LowWord(max)
              msb == HighWord(max)
          IN  Try(Em2rsSyncClient("write_register", m, [addr |-> SOFT_LIMIT_P_H, value |-> msb]), LAMBDA m1 :
              Em2rsSyncClient("write_register", m1, [addr |-> SOFT_LIMIT_P_L, value |-> lsb])))
      [] call = "set_soft_limit_min" ->
         (LET min == a.min
          IN
          LET lsb == LowWord(min)
              msb == HighWord(min)
          IN  Try(Em2rsSyncClient("write_register", m, [addr |-> SOFT_LIMIT_N_H, value |-> msb]), LAMBDA m1 :
              Em2rsSyncClient("write_register", m1, [addr |-> SOFT_LIMIT_N_L, value |-> lsb])))
      [] call = "homing_power_up_control" ->
         (LET enable == a.enable
          IN
          Try(Em2rsSyncClient("read_registers", m, [addr |-> PR_GLOBAL_CTRL_FCT, count |-> 1]), LAMBDA data :
          Try(Index0(data), LAMBDA word :
          LET reg == IF enable THEN SetBit(word.res.val, 2) ELSE ClearBit(word.res.val, 2)
          IN  Em2rsSyncClient("write_register", word, [addr |-> PR_GLOBAL_CTRL_FCT, value |-> reg]))))
      [] call = "set_ctrg_trigger_type" ->
         (LET level_trigger == a.level_trigger
          IN
          Try(Em2rsSyncClient("read_registers", m, [addr |-> PR_GLOBAL_CTRL_FCT, count |-> 1]), LAMBDA data :
          Try(Index0(data), LAMBDA word :
          LET reg == IF level_trigger THEN SetBit(word.res.val, 4) ELSE ClearBit(word.res.val, 4)
          IN  Em2rsSyncClient("write_register", word, [addr |-> PR_GLOBAL_CTRL_FCT, value |-> reg]))))
      [] call = "configure_homing" ->
         (LET direction == a.direction
              move_to_pos == a.move_to_pos
              method == a.method
          IN
          LET config == Direction_u16(direction)
                          + (IF move_to_pos THEN 2 ELSE 0)
                          + HomingMethod_u16(method)
          IN  Try(Em2rsSyncClient("write_register", m, [addr |-> HOME_MODE, value |-> config]), LAMBDA m1 :
              Em2rsSyncClient("write_register", m1, [addr |-> HOMING_AUX, value |-> 2])))
      [] call = "set_homing_position" ->
         (LET position == a.position
          IN
          LET lsb == LowWord(position)
              msb == HighWord(position)
          IN  Try(Em2rsSyncClient("write_register", m, [addr |-> HOME_SWITCH_POS_HIGH, value |-> msb]), LAMBDA m1 :
              Em2rsSyncClient("write_register", m1, [addr |-> HOME_SWITCH_POS_LOW, value |-> lsb])))
      [] call = "set_homing_stop_position" ->
         (LET position == a.position
          IN
          LET lsb == LowWord(position)
              msb == HighWord(position)
          IN  Try(Em2rsSyncClient("write_register", m, [addr |-> HOMING_STOP_POS_HIGH, value |-> msb]), LAMBDA m1 :
              Em2rsSyncClient("write_register", m1, [addr |-> HOMING_STOP_POS_LOW, value |-> lsb])))
      [] call = "set_homing_high_velocity" ->
         (LET rpm == a.rpm
          IN
          Em2rsSyncClient("write_register", m, [addr |-> HOMING_HIGH_VELOCITY, value |-> rpm]))
      [] call = "set_homing_low_velocity" ->
         (LET rpm == a.rpm
          IN
          Em2rsSyncClient("write_register", m, [addr |-> HOMING_LOW_VELOCITY, value |-> rpm]))
      [] call = "set_homing_acceleration" ->
         (LET acc == a.acc
          IN
          Em2rsSyncClient("write_register", m, [addr |-> HOMING_ACC, value |-> acc]))
      [] call = "set_homing_deceleration" ->
         (LET dec == a.dec
          IN
          Em2rsSyncClient("write_register", m, [addr |-> HOMING_DEC, value |-> dec]))
      [] call = "apply_homing_config" ->
         (LET config == a.config
          IN
          Try(Em2rsSyncClient("configure_input", m, [input_no |-> config.input_no, function |-> config.function, normally_closed |-> config.normally_closed]),
              LAMBDA m1 :
          Try(Em2rsSyncClient("configure_homing", m1, [direction |-> config.direction, move_to_pos |-> config.move_to_pos_after, method |-> config.method]),
              LAMBDA m2 :
          Try(Em2rsSyncClient("set_homing_position", m2, [position |-> config.position]), LAMBDA m3 :
          Try(Em2rsSyncClient("set_homing_stop_position", m3, [position |-> config.position_stop]), LAMBDA m4 :
          Try(Em2rsSyncClient("set_homing_high_velocity", m4, [rpm |-> config.high_velocity]), LAMBDA m5 :
          Try(Em2rsSyncClient("set_homing_low_velocity", m5, [rpm |-> config.low_velocity]), LAMBDA m6 :
          Try(Em2rsSyncClient("set_homing_acceleration", m6, [acc |-> config.acceleration]), LAMBDA m7 :
          Try(Em2rsSyncClient("set_homing_deceleration", m7, [dec |-> config.deceleration]), LAMBDA m8 :
          Return(m8, Ok(Unit)))))))))))
      [] call = "set_pr_control" ->
         (LET command == a.command
          IN
          Em2rsSyncClient("write_register", m, [addr |-> PR_CTRL, value |-> PrControlCommand_u16(command)]))
      [] call = "start_homing" ->
         (Em2rsSyncClient("set_pr_control", m, [command |-> "Homing"]))
      [] call = "start_path" ->
         (LET path_id == a.path_id
          IN
          IF path_id > 8 THEN Return(m, Err("InvalidPath", path_id))
          ELSE LET command_value == PrControlCommand_u16("RunThePath") + path_id
               IN  Em2rsSyncClient("write_register", m, [addr |-> PR_CTRL, value |-> command_value]))
      [] call = "stop_motor" ->
         (Em2rsSyncClient("set_pr_control", m, [command |-> "QuickStop"]))
      [] call = "manual_zero" ->
         (Em2rsSyncClient("set_pr_control", m, [command |-> "ManualZero"]))
      [] call = "configure_path_motion" ->
         (LET path_id == a.path_id
              motion_type == a.motion_type
              interrupt == a.interrupt
              overlap == a.overlap
              absolute == a.absolute
              jump == a.jump
              jump_to == a.jump_to
          IN
          LET base == get_path_base(path_id)
          IN  IF ~base.some THEN Return(m, Err("InvalidPath", path_id))
              ELSE LET config0 == PathMotionType_u16(motion_type)
                                   + (IF interrupt THEN 16 ELSE 0)
                                   + (IF overlap THEN 32 ELSE 0)
                                   + (IF absolute THEN 0 ELSE 64)
                       config == IF jump THEN config0 + 16384 + ((jump_to % 16) * 256)
                                 ELSE config0
                   IN  Em2rsSyncClient("write_register", m, [addr |-> base.val, value |-> config]))
      [] call = "set_path_position" ->
         (LET path_id == a.path_id
              position == a.position
          IN
          LET base == get_path_base(path_id)
          IN  IF ~base.some THEN Return(m, Err("InvalidPath", path_id))
              ELSE LET lsb == LowWord(position)
                       msb == HighWord(position)
                   IN  Try(Em2rsSyncClient("write_register", m, [addr |-> base.val + PATH_POSITION_H_OFFSET, value |-> msb]), LAMBDA m1 :
                       Em2rsSyncClient("write_register", m1, [addr |-> base.val + PATH_POSITION_L_OFFSET, value |-> lsb])))
      [] call = "set_path_velocity" ->
         (LET path_id == a.path_id
              rpm == a.rpm
          IN
          LET base == get_path_base(path_id)
          IN  IF ~base.some THEN Return(m, Err("InvalidPath", path_id))
              ELSE Em2rsSyncClient("write_register", m, [addr |-> base.val + PATH_VELOCITY_OFFSET, value |-> rpm]))
      [] call = "set_path_acceleration" ->
         (LET path_id == a.path_id
              acc == a.acc
          IN
          LET base == get_path_base(path_id)
          IN  IF ~base.some THEN Return(m, Err("InvalidPath", path_id))
              ELSE Em2rsSyncClient("write_register", m, [addr |-> base.val + PATH_ACC_OFFSET, value |-> acc]))
      [] call = "set_path_deceleration" ->
         (LET path_id == a.path_id
              dec == a.dec
          IN
          LET base == get_path_base(path_id)
          IN  IF ~base.some THEN Return(m, Err("InvalidPath", path_id))
              ELSE Em2rsSyncClient("write_register", m, [addr |-> base.val + PATH_DEC_OFFSET, value |-> dec]))
      [] call = "set_path_pause_time" ->
         (LET path_id == a.path_id
              ms == a.ms
          IN
          LET base == get_path_base(path_id)
          IN  IF ~base.some THEN Return(m, Err("InvalidPath", path_id))
              ELSE Em2rsSyncClient("write_register", m, [addr |-> base.val + PATH_PAUSE_TIME_OFFSET, value |-> ms]))
      [] call = "apply_path_config" ->
         (LET config == a.config
          IN
          Try(Em2rsSyncClient("configure_path_motion", m, [path_id |-> config.path_id, motion_type |-> "PositionPositioning", interrupt |-> FALSE, overlap |-> FALSE, absolute |-> config.absolute_position, jump |-> FALSE, jump_to |-> 0]),
              LAMBDA m1 :
          Try(Em2rsSyncClient("set_path_position", m1, [path_id |-> config.path_id, position |-> config.position]), LAMBDA m2 :
          Try(Em2rsSyncClient("set_path_velocity", m2, [path_id |-> config.path_id, rpm |-> config.velocity]), LAMBDA m3 :
          Try(Em2rsSyncClient("set_path_acceleration", m3, [path_id |-> config.path_id, acc |-> config.acceleration]), LAMBDA m4 :
          Try(Em2rsSyncClient("set_path_deceleration", m4, [path_id |-> config.path_id, dec |-> config.deceleration]), LAMBDA m5 :
          Try(IF config.pause_time > 0
              THEN Em2rsSyncClient("set_path_pause_time", m5, [path_id |-> config.path_id, ms |-> config.pause_time])
              ELSE m5,
              LAMBDA m6 :
          Return(m6, Ok(Unit)))))))))
      [] call = "get_version" ->
         (Try(Em2rsSyncClient("read_registers", m, [addr |-> VERSION_INFORMATION, count |-> 1]), LAMBDA data :
          Index0(data)))
      [] call = "get_current_alarm" ->
         (Try(Em2rsSyncClient("read_registers", m, [addr |-> CURRENT_ALARM, count |-> 1]), LAMBDA data :
          Index0(data)))

(***************************************************************************)
(* types.rs: the configuration objects.  Every field is public, so a       *)
(* caller can build any value of the field types.                          *)
(***************************************************************************)
StepperConfig(slave_id, pulse_per_rev, direction, phase_current, inductance) ==
    [slave_id |-> slave_id, pulse_per_rev |-> pulse_per_rev, direction |-> direction,
     phase_current |-> phase_current, inductance |-> inductance]

HomingConfig(input_no, function, normally_closed, direction, move_to_pos_after, method,
             position, position_stop, high_velocity, low_velocity, acceleration,
             deceleration) ==
    [input_no |-> input_no, function |-> function, normally_closed |-> normally_closed,
     direction |-> direction, move_to_pos_after |-> move_to_pos_after, method |-> method,
     position |-> position, position_stop |-> position_stop,
     high_velocity |-> high_velocity, low_velocity |-> low_velocity,
     acceleration |-> acceleration, deceleration |-> deceleration]

PathConfig(path_id, absolute_position, position, velocity, acceleration, deceleration,
           pause_time) ==
    [path_id |-> path_id, absolute_position |-> absolute_position, position |-> position,
     velocity |-> velocity, acceleration |-> acceleration, deceleration |-> deceleration,
     pause_time |-> pause_time]

\* PathConfig::new with the bound of the path id off by one
PathConfig_new_upto9(path_id) ==
    IF path_id > 9 THEN Err("InvalidPath", path_id)
    ELSE Ok(PathConfig(path_id, TRUE, 0, 100, 100, 100, 0))

\* PathConfig::new: validates the path id, then the defaults
PathConfig_new(path_id) ==
    IF path_id > 8 THEN Err("InvalidPath", path_id)
    ELSE Ok(PathConfig(path_id, TRUE, 0, 100, 100, 100, 0))

(***************************************************************************)
(* The inputs the actions draw from.                                       *)
(***************************************************************************)
StepperConfigInputs ==
    {StepperConfig(1, 10000, "Clockwise", F32(FALSE, 2, 0), 1000),
     StepperConfig(2, 400, "CounterClockwise", F32(FALSE, 3, -1), 12000)}

HomingConfigInputs ==
    {HomingConfig(1, "Org", FALSE, "Clockwise", TRUE, "HomeSwitch", 0, 1000, 200, 50, 100, 100),
     HomingConfig(7, "Pot", TRUE, "CounterClockwise", FALSE, "LimitSwitch",
                  131073, 2147483647, 300, 20, 150, 160),
     HomingConfig(0, "Org", FALSE, "Clockwise", TRUE, "HomeSwitch", 0, 1000, 200, 50, 100, 100),
     HomingConfig(8, "Pot", TRUE, "CounterClockwise", FALSE, "LimitSwitch", 5, 6, 7, 8, 9, 10)}

PathConfigInputs ==
    {PathConfig(0, TRUE, 5000, 300, 150, 150, 0),
     PathConfig(0, TRUE, 5000, 300, 150, 150, 500),
     PathConfig(8, FALSE, 131073, 400, 200, 210, 0),
     PathConfig(3, FALSE, 2147483647, 65535, 1, 2, 1),
     PathConfig(9, TRUE, 5000, 300, 150, 150, 0),
     PathConfig(255, FALSE, 1, 2, 3, 4, 5)}

PathMotionInputs ==
    {<<0, "PositionPositioning", FALSE, FALSE, TRUE, FALSE, 0>>,
     <<0, "VelocityMovement", TRUE, FALSE, FALSE, TRUE, 8>>,
     <<3, "Homing", TRUE, TRUE, FALSE, TRUE, 15>>,
     <<8, "NoAction", FALSE, TRUE, TRUE, TRUE, 16>>,
     <<8, "PositionPositioning", FALSE, FALSE, TRUE, FALSE, 255>>,
     <<9, "PositionPositioning", FALSE, FALSE, TRUE, FALSE, 0>>,
     <<255, "Homing", TRUE, TRUE, FALSE, TRUE, 255>>,
     <<1, "NoAction", FALSE, FALSE, TRUE, FALSE, 0>>,
     <<1, "Homing", TRUE, TRUE, FALSE, TRUE, 15>>,
     <<2, "VelocityMovement", TRUE, FALSE, TRUE, FALSE, 7>>,
     <<2, "PositionPositioning", FALSE, TRUE, TRUE, FALSE, 0>>,
     <<2, "PositionPositioning", FALSE, FALSE, FALSE, FALSE, 0>>,
     <<2, "NoAction", FALSE, FALSE, TRUE, TRUE, 0>>,
     <<4, "VelocityMovement", FALSE, TRUE, FALSE, TRUE, 1>>}

PathIdInputs == {0, 8, 9, 255}
InputNoInputs == {0, 1, 4, 7, 8}
U16Inputs == {300, 65535}
U32Inputs == {5000, 2147418113}
\* 2.0, 2.5, 0.5, 4.5, 13.0 and -1.0 amperes
F32Inputs ==
    {F32(FALSE, 2, 0), F32(FALSE, 5, -1), F32(FALSE, 1, -1), F32(FALSE, 9, -1),
     F32(FALSE, 13, 0), F32(TRUE, 1, 0)}

\* the channel's answers to a method's n register calls: all "ok", or one
\* call answered with an exception code or a transport failure
Faults(n) ==
    {[i \in 1..n |-> "ok"]}
    \cup {[i \in 1..n |-> IF i = k THEN f ELSE "ok"] : k \in 1..n, f \in {"exc", "err"}}

\* the same for a method whose first call is a read
ReadFaults(n) ==
    Faults(n) \cup {[i \in 1..n |-> IF i = 1 THEN "empty" ELSE "ok"]}

(***************************************************************************)
(* The state machine.                                                      *)
(***************************************************************************)
NoClient == [live |-> FALSE]
NoArgs == <<>>

ZeroImage == [a \in Addrs |-> 0]

\* a device that an earlier program has configured and enabled
UsedImage ==
    [a \in Addrs |->
        CASE a = VERSION_INFORMATION -> 262
          [] a = MOTION_STATUS -> MS_ENABLE + MS_PATH_COMPLETE
          [] a = CURRENT_ALARM -> 2
          [] a = DIGITAL_INPUT_STATUS -> 5
          [] a = PR_GLOBAL_CTRL_FCT -> 22
          [] a \in {get_path_base(p).val + PATH_PAUSE_TIME_OFFSET : p \in 0..8} -> 750
          [] OTHER -> 0]

Init ==
    /\ regs = [s \in Slaves |-> IF s = 1 THEN ZeroImage ELSE UsedImage]
    /\ ctx_slave \in Slaves
    /\ client = NoClient
    /\ op = "none"
    /\ args = NoArgs
    /\ log = <<>>
    /\ res = Ok(Unit)
    /\ nops = 0

\* Em2rsClient::new on a channel that a live client still holds
New_shared ==
    /\ \E config \in StepperConfigInputs :
        /\ client' = [live |-> TRUE, slave_id |-> config.slave_id, config |-> config]
        /\ op' = "new"
        /\ args' = [config |-> config]
    /\ log' = <<>>
    /\ res' = Ok(Unit)
    /\ UNCHANGED <<regs, ctx_slave, nops>>

\* Em2rsClient::new also addressing the channel to the slave of the config
New_addressing ==
    /\ client = NoClient
    /\ \E config \in StepperConfigInputs :
        /\ client' = [live |-> TRUE, slave_id |-> config.slave_id, config |-> config]
        /\ op' = "new"
        /\ args' = [config |-> config]
        /\ ctx_slave' = config.slave_id
    /\ log' = <<>>
    /\ res' = Ok(Unit)
    /\ UNCHANGED <<regs, nops>>

\* Em2rsClient::new: takes the channel and the configuration
New ==
    /\ client = NoClient
    /\ \E config \in StepperConfigInputs :
        /\ client' = [live |-> TRUE, slave_id |-> config.slave_id, config |-> config]
        /\ op' = "new"
        /\ args' = [config |-> config]
    /\ log' = <<>>
    /\ res' = Ok(Unit)
    /\ UNCHANGED <<regs, ctx_slave, nops>>

\* Em2rsClient::into_context: consumes the client and gives the channel back
IntoContext ==
    /\ client # NoClient
    /\ client' = NoClient
    /\ op' = "into_context"
    /\ args' = NoArgs
    /\ log' = <<>>
    /\ res' = Ok(Unit)
    /\ UNCHANGED <<regs, ctx_slave, nops>>

\* the machine a method of the live client starts on
Start(oc) ==
    [regs |-> regs, slave |-> ctx_slave, log |-> <<>>, oc |-> oc, n |-> 0, res |-> Ok(Unit)]

\* a method of the live client, called with arguments a, ran to m
Call(name, a, m) ==
    /\ client # NoClient
    /\ nops < MaxOps
    /\ op' = name
    /\ args' = a
    /\ log' = m.log
    /\ res' = m.res
    /\ regs' = m.regs
    /\ ctx_slave' = m.slave
    /\ nops' = nops + 1
    /\ UNCHANGED client

\* PathConfig::new, called by the program; it needs no client and no channel
Call_PathConfig_new ==
    /\ nops < MaxOps
    /\ \E path_id \in PathIdInputs :
        /\ op' = "PathConfig_new"
        /\ args' = [path_id |-> path_id]
        /\ res' = PathConfig_new(path_id)
    /\ log' = <<>>
    /\ nops' = nops + 1
    /\ UNCHANGED <<regs, ctx_slave, client>>

Call_init ==
    \E oc \in Faults(4) :
        Call("init", NoArgs, init(Start(oc), client))

Call_set_peak_current ==
    \E phase_current \in F32Inputs, oc \in Faults(1) :
        Call("set_peak_current", [phase_current |-> phase_current], set_peak_current(Start(oc), phase_current))

Call_set_motor_inductance ==
    \E inductance \in {800, 10000, 10001, 65535}, oc \in Faults(1) :
        Call("set_motor_inductance", [inductance |-> inductance], set_motor_inductance(Start(oc), inductance))

Call_forced_enable_by_software ==
    \E enable \in BOOLEAN, oc \in Faults(1) :
        Call("forced_enable_by_software", [enable |-> enable], forced_enable_by_software(Start(oc), enable))

Call_save_param_eeprom ==
    \E oc \in Faults(1) :
        Call("save_param_eeprom", NoArgs, save_param_eeprom(Start(oc)))

Call_param_reset ==
    \E oc \in Faults(1) :
        Call("param_reset", NoArgs, param_reset(Start(oc)))

Call_factory_reset ==
    \E oc \in Faults(1) :
        Call("factory_reset", NoArgs, factory_reset(Start(oc)))

Call_save_mapping_eeprom ==
    \E oc \in Faults(1) :
        Call("save_mapping_eeprom", NoArgs, save_mapping_eeprom(Start(oc)))

Call_jog_motor ==
    \E direction \in Direction, oc \in Faults(1) :
        Call("jog_motor", [direction |-> direction], jog_motor(Start(oc), direction))

Call_configure_input ==
    \E input_no \in InputNoInputs, function \in {"Org", "JogVelocity"}, normally_closed \in BOOLEAN, oc \in Faults(1) :
        Call("configure_input", [input_no |-> input_no, function |-> function, normally_closed |-> normally_closed], configure_input(Start(oc), input_no, function, normally_closed))

Call_get_input_status ==
    \E oc \in ReadFaults(1) :
        Call("get_input_status", NoArgs, get_input_status(Start(oc)))

Call_get_motion_status ==
    \E oc \in ReadFaults(1) :
        Call("get_motion_status", NoArgs, get_motion_status(Start(oc)))

Call_is_path_completed ==
    \E oc \in ReadFaults(1) :
        Call("is_path_completed", NoArgs, is_path_completed(Start(oc)))

Call_is_homing_completed ==
    \E oc \in ReadFaults(1) :
        Call("is_homing_completed", NoArgs, is_homing_completed(Start(oc)))

Call_set_ctrg_effective_edge ==
    \E double_edge \in BOOLEAN, oc \in ReadFaults(2) :
        Call("set_ctrg_effective_edge", [double_edge |-> double_edge], set_ctrg_effective_edge(Start(oc), double_edge))

Call_soft_limit_control ==
    \E enable \in BOOLEAN, oc \in ReadFaults(2) :
        Call("soft_limit_control", [enable |-> enable], soft_limit_control(Start(oc), enable))

Call_set_soft_limit_max ==
    \E max \in U32Inputs, oc \in Faults(2) :
        Call("set_soft_limit_max", [max |-> max], set_soft_limit_max(Start(oc), max))

Call_set_soft_limit_min ==
    \E min \in U32Inputs, oc \in Faults(2) :
        Call("set_soft_limit_min", [min |-> min], set_soft_limit_min(Start(oc), min))

Call_homing_power_up_control ==
    \E enable \in BOOLEAN, oc \in ReadFaults(2) :
        Call("homing_power_up_control", [enable |-> enable], homing_power_up_control(Start(oc), enable))

Call_set_ctrg_trigger_type ==
    \E level_trigger \in BOOLEAN, oc \in ReadFaults(2) :
        Call("set_ctrg_trigger_type", [level_trigger |-> level_trigger], set_ctrg_trigger_type(Start(oc), level_trigger))

Call_configure_homing ==
    \E direction \in Direction, move_to_pos \in BOOLEAN, method \in HomingMethod, oc \in Faults(2) :
        Call("configure_homing", [direction |-> direction, move_to_pos |-> move_to_pos, method |-> method], configure_homing(Start(oc), direction, move_to_pos, method))

Call_set_homing_position ==
    \E position \in U32Inputs, oc \in Faults(2) :
        Call("set_homing_position", [position |-> position], set_homing_position(Start(oc), position))

Call_set_homing_stop_position ==
    \E position \in U32Inputs, oc \in Faults(2) :
        Call("set_homing_stop_position", [position |-> position], set_homing_stop_position(Start(oc), position))

Call_set_homing_high_velocity ==
    \E rpm \in U16Inputs, oc \in Faults(1) :
        Call("set_homing_high_velocity", [rpm |-> rpm], set_homing_high_velocity(Start(oc), rpm))

Call_set_homing_low_velocity ==
    \E rpm \in U16Inputs, oc \in Faults(1) :
        Call("set_homing_low_velocity", [rpm |-> rpm], set_homing_low_velocity(Start(oc), rpm))

Call_set_homing_acceleration ==
    \E acc \in U16Inputs, oc \in Faults(1) :
        Call("set_homing_acceleration", [acc |-> acc], set_homing_acceleration(Start(oc), acc))

Call_set_homing_deceleration ==
    \E dec \in U16Inputs, oc \in Faults(1) :
        Call("set_homing_deceleration", [dec |-> dec], set_homing_deceleration(Start(oc), dec))

Call_apply_homing_config ==
    \E config \in HomingConfigInputs, oc \in Faults(11) :
        Call("apply_homing_config", [config |-> config], apply_homing_config(Start(oc), config))

Call_start_homing ==
    \E oc \in Faults(1) :
        Call("start_homing", NoArgs, start_homing(Start(oc)))

Call_start_path ==
    \E path_id \in PathIdInputs, oc \in Faults(1) :
        Call("start_path", [path_id |-> path_id], start_path(Start(oc), path_id))

Call_stop_motor ==
    \E oc \in Faults(1) :
        Call("stop_motor", NoArgs, stop_motor(Start(oc)))

Call_manual_zero ==
    \E oc \in Faults(1) :
        Call("manual_zero", NoArgs, manual_zero(Start(oc)))

Call_configure_path_motion ==
    \E a \in PathMotionInputs, oc \in Faults(1) :
        Call("configure_path_motion", [path_id |-> a[1], motion_type |-> a[2], interrupt |-> a[3], overlap |-> a[4],
              absolute |-> a[5], jump |-> a[6], jump_to |-> a[7]], 
             configure_path_motion(Start(oc), a[1], a[2], a[3], a[4], a[5], a[6], a[7]))

Call_set_path_position ==
    \E path_id \in PathIdInputs, position \in U32Inputs, oc \in Faults(2) :
        Call("set_path_position", [path_id |-> path_id, position |-> position], set_path_position(Start(oc), path_id, position))

Call_set_path_velocity ==
    \E path_id \in PathIdInputs, rpm \in U16Inputs, oc \in Faults(1) :
        Call("set_path_velocity", [path_id |-> path_id, rpm |-> rpm], set_path_velocity(Start(oc), path_id, rpm))

Call_set_path_acceleration ==
    \E path_id \in PathIdInputs, acc \in U16Inputs, oc \in Faults(1) :
        Call("set_path_acceleration", [path_id |-> path_id, acc |-> acc], set_path_acceleration(Start(oc), path_id, acc))

Call_set_path_deceleration ==
    \E path_id \in PathIdInputs, dec \in U16Inputs, oc \in Faults(1) :
        Call("set_path_deceleration", [path_id |-> path_id, dec |-> dec], set_path_deceleration(Start(oc), path_id, dec))

Call_set_path_pause_time ==
    \E path_id \in PathIdInputs, ms \in U16Inputs, oc \in Faults(1) :
        Call("set_path_pause_time", [path_id |-> path_id, ms |-> ms], set_path_pause_time(Start(oc), path_id, ms))

Call_apply_path_config ==
    \E config \in PathConfigInputs, oc \in Faults(7) :
        Call("apply_path_config", [config |-> config], apply_path_config(Start(oc), config))

Call_get_version ==
    \E oc \in ReadFaults(1) :
        Call("get_version", NoArgs, get_version(Start(oc)))

Call_get_current_alarm ==
    \E oc \in ReadFaults(1) :
        Call("get_current_alarm", NoArgs, get_current_alarm(Start(oc)))

Next ==
    \/ New
    \/ IntoContext
    \/ Call_PathConfig_new
    \/ Call_init
    \/ Call_set_peak_current
    \/ Call_set_motor_inductance
    \/ Call_forced_enable_by_software
    \/ Call_save_param_eeprom
    \/ Call_param_reset
    \/ Call_factory_reset
    \/ Call_save_mapping_eeprom
    \/ Call_jog_motor
    \/ Call_configure_input
    \/ Call_get_input_status
    \/ Call_get_motion_status
    \/ Call_is_path_completed
    \/ Call_is_homing_completed
    \/ Call_set_ctrg_effective_edge
    \/ Call_soft_limit_control
    \/ Call_set_soft_limit_max
    \/ Call_set_soft_limit_min
    \/ Call_homing_power_up_control
    \/ Call_set_ctrg_trigger_type
    \/ Call_configure_homing
    \/ Call_set_homing_position
    \/ Call_set_homing_stop_position
    \/ Call_set_homing_high_velocity
    \/ Call_set_homing_low_velocity
    \/ Call_set_homing_acceleration
    \/ Call_set_homing_deceleration
    \/ Call_apply_homing_config
    \/ Call_start_homing
    \/ Call_start_path
    \/ Call_stop_motor
    \/ Call_manual_zero
    \/ Call_configure_path_motion
    \/ Call_set_path_position
    \/ Call_set_path_velocity
    \/ Call_set_path_acceleration
    \/ Call_set_path_deceleration
    \/ Call_set_path_pause_time
    \/ Call_apply_path_config
    \/ Call_get_version
    \/ Call_get_current_alarm

Spec == Init /\ [][Next]_vars

(***************************************************************************)
(* The pure functions of types.rs: the status and alarm predicates over    *)
(* every 16-bit word, and the conversion of every wire enumeration.        *)
(***************************************************************************)
TypesInit ==
    /\ regs = [s \in Slaves |-> ZeroImage]
    /\ ctx_slave = 1
    /\ client = NoClient
    /\ op = "none"
    /\ args = NoArgs
    /\ log = <<>>
    /\ res = Ok(Unit)
    /\ nops = 0

\* a function of types.rs applied to a, giving r
Apply(name, a, r) ==
    /\ op' = name
    /\ args' = a
    /\ res' = Ok(r)
    /\ UNCHANGED <<regs, ctx_slave, client, log, nops>>

\* w ^ (1 << k)
FlipBit(w, k) == IF TestMask(w, Pow2(k)) THEN ClearBit(w, k) ELSE SetBit(w, k)

Wrap_MotionStatus ==
    \E w \in {0, 65535} : Apply("MotionStatus", [word |-> w], MotionStatus(w))

Flip_MotionStatus ==
    /\ op = "MotionStatus"
    /\ \E k \in 0..15 : \E w \in {FlipBit(args.word, k)} :
          Apply("MotionStatus", [word |-> w], MotionStatus(w))

Wrap_CurrentAlarm ==
    \E w \in {0, 65535} : Apply("CurrentAlarm", [word |-> w], CurrentAlarm(w))

Flip_CurrentAlarm ==
    /\ op = "CurrentAlarm"
    /\ \E k \in 0..15 : \E w \in {FlipBit(args.word, k)} :
          Apply("CurrentAlarm", [word |-> w], CurrentAlarm(w))

From_Direction ==
    \E v \in Direction : Apply("Direction", [variant |-> v], Direction_u16(v))

From_DigitalInputFunction ==
    \E v \in DigitalInputFunction :
        Apply("DigitalInputFunction", [variant |-> v], DigitalInputFunction_u16(v))

From_DigitalOutputFunction ==
    \E v \in DigitalOutputFunction :
        Apply("DigitalOutputFunction", [variant |-> v], DigitalOutputFunction_u16(v))

From_ControlWord ==
    \E v \in ControlWord : Apply("ControlWord", [variant |-> v], ControlWord_u16(v))

From_HomingMethod ==
    \E v \in HomingMethod : Apply("HomingMethod", [variant |-> v], HomingMethod_u16(v))

From_PrControlCommand ==
    \E v \in PrControlCommand :
        Apply("PrControlCommand", [variant |-> v], PrControlCommand_u16(v))

From_PathMotionType ==
    \E v \in PathMotionType :
        Apply("PathMotionType", [variant |-> v], PathMotionType_u16(v))

TypesNext ==
    \/ Wrap_MotionStatus
    \/ Flip_MotionStatus
    \/ Wrap_CurrentAlarm
    \/ Flip_CurrentAlarm
    \/ From_Direction
    \/ From_DigitalInputFunction
    \/ From_DigitalOutputFunction
    \/ From_ControlWord
    \/ From_HomingMethod
    \/ From_PrControlCommand
    \/ From_PathMotionType

SpecTypes == TypesInit /\ [][TypesNext]_vars

(***************************************************************************)
(* Calls in a row on one session, with a device whose status registers     *)
(* change between them.                                                    *)
(***************************************************************************)
MaxSteps == 3

\* a channel that acknowledges n calls
Acks(n) == [i \in 1..n |-> "ok"]

\* the words the device puts in its status registers
DeviceUpdates ==
    {<<MOTION_STATUS, MS_ENABLE + MS_CMD_COMPLETE + MS_PATH_COMPLETE + MS_HOMING_COMPLETE>>,
     <<CURRENT_ALARM, EEPROM_FAULT + OVER_CURRENT>>,
     <<DIGITAL_INPUT_STATUS, 0>>,
     <<VERSION_INFORMATION, 263>>}

\* the device of slave s changes one of its status registers
Device_update ==
    /\ nops < MaxSteps
    /\ \E s \in Slaves, u \in DeviceUpdates :
        /\ regs' = [regs EXCEPT ![s][u[1]] = u[2]]
        /\ args' = [slave |-> s, addr |-> u[1], word |-> u[2]]
    /\ op' = "device"
    /\ log' = <<>>
    /\ res' = Ok(Unit)
    /\ nops' = nops + 1
    /\ UNCHANGED <<ctx_slave, client>>

\* a method of the live client, called with arguments a, ran to m
Step(name, a, m) ==
    /\ client # NoClient
    /\ nops < MaxSteps
    /\ op' = name
    /\ args' = a
    /\ log' = m.log
    /\ res' = m.res
    /\ regs' = m.regs
    /\ ctx_slave' = m.slave
    /\ nops' = nops + 1
    /\ UNCHANGED client

Step_get_motion_status ==
    \E oc \in ReadFaults(1) :
        Step("get_motion_status", NoArgs, get_motion_status(Start(oc)))

Step_get_current_alarm ==
    \E oc \in ReadFaults(1) :
        Step("get_current_alarm", NoArgs, get_current_alarm(Start(oc)))

Step_get_input_status ==
    \E oc \in ReadFaults(1) :
        Step("get_input_status", NoArgs, get_input_status(Start(oc)))

Step_get_version ==
    \E oc \in ReadFaults(1) :
        Step("get_version", NoArgs, get_version(Start(oc)))

Step_is_path_completed ==
    \E oc \in ReadFaults(1) :
        Step("is_path_completed", NoArgs, is_path_completed(Start(oc)))

Step_is_homing_completed ==
    \E oc \in ReadFaults(1) :
        Step("is_homing_completed", NoArgs, is_homing_completed(Start(oc)))

Step_apply_homing_config ==
    \E config \in HomingConfigInputs :
        Step("apply_homing_config", [config |-> config],
             apply_homing_config(Start(Acks(11)), config))

Step_apply_path_config ==
    \E config \in PathConfigInputs :
        Step("apply_path_config", [config |-> config],
             apply_path_config(Start(Acks(7)), config))

DeviceNext ==
    \/ New
    \/ Device_update
    \/ Step_get_motion_status
    \/ Step_get_current_alarm
    \/ Step_get_input_status
    \/ Step_get_version
    \/ Step_is_path_completed
    \/ Step_is_homing_completed
    \/ Step_apply_homing_config
    \/ Step_apply_path_config

SpecDevice == Init /\ [][DeviceNext]_vars

(***************************************************************************)
(* One call, channel operation by channel operation.  A method issues a    *)
(* register call and waits for the channel to return it; what it does next *)
(* depends on the answers so far.  regs and ctx_slave keep the values of   *)
(* the start of the call until the method returns.                         *)
(***************************************************************************)
\* impl Em2rsClient: the public method `call` applied to the arguments a
Em2rsClient(call, m, a) ==
    CASE call = "init" -> init(m, client)
      [] call = "set_peak_current" -> set_peak_current(m, a.phase_current)
      [] call = "set_motor_inductance" -> set_motor_inductance(m, a.inductance)
      [] call = "forced_enable_by_software" -> forced_enable_by_software(m, a.enable)
      [] call = "save_param_eeprom" -> save_param_eeprom(m)
      [] call = "param_reset" -> param_reset(m)
      [] call = "factory_reset" -> factory_reset(m)
      [] call = "save_mapping_eeprom" -> save_mapping_eeprom(m)
      [] call = "jog_motor" -> jog_motor(m, a.direction)
      [] call = "configure_input" -> configure_input(m, a.input_no, a.function, a.normally_closed)
      [] call = "get_input_status" -> get_input_status(m)
      [] call = "get_motion_status" -> get_motion_status(m)
      [] call = "is_path_completed" -> is_path_completed(m)
      [] call = "is_homing_completed" -> is_homing_completed(m)
      [] call = "set_ctrg_effective_edge" -> set_ctrg_effective_edge(m, a.double_edge)
      [] call = "soft_limit_control" -> soft_limit_control(m, a.enable)
      [] call = "set_soft_limit_max" -> set_soft_limit_max(m, a.max)
      [] call = "set_soft_limit_min" -> set_soft_limit_min(m, a.min)
      [] call = "homing_power_up_control" -> homing_power_up_control(m, a.enable)
      [] call = "set_ctrg_trigger_type" -> set_ctrg_trigger_type(m, a.level_trigger)
      [] call = "configure_homing" -> configure_homing(m, a.direction, a.move_to_pos, a.method)
      [] call = "set_homing_position" -> set_homing_position(m, a.position)
      [] call = "set_homing_stop_position" -> set_homing_stop_position(m, a.position)
      [] call = "set_homing_high_velocity" -> set_homing_high_velocity(m, a.rpm)
      [] call = "set_homing_low_velocity" -> set_homing_low_velocity(m, a.rpm)
      [] call = "set_homing_acceleration" -> set_homing_acceleration(m, a.acc)
      [] call = "set_homing_deceleration" -> set_homing_deceleration(m, a.dec)
      [] call = "apply_homing_config" -> apply_homing_config(m, a.config)
      [] call = "start_homing" -> start_homing(m)
      [] call = "start_path" -> start_path(m, a.path_id)
      [] call = "stop_motor" -> stop_motor(m)
      [] call = "manual_zero" -> manual_zero(m)
      [] call = "configure_path_motion" -> configure_path_motion(m, a.path_id, a.motion_type, a.interrupt, a.overlap, a.absolute, a.jump, a.jump_to)
      [] call = "set_path_position" -> set_path_position(m, a.path_id, a.position)
      [] call = "set_path_velocity" -> set_path_velocity(m, a.path_id, a.rpm)
      [] call = "set_path_acceleration" -> set_path_acceleration(m, a.path_id, a.acc)
      [] call = "set_path_deceleration" -> set_path_deceleration(m, a.path_id, a.dec)
      [] call = "set_path_pause_time" -> set_path_pause_time(m, a.path_id, a.ms)
      [] call = "apply_path_config" -> apply_path_config(m, a.config)
      [] call = "get_version" -> get_version(m)
      [] call = "get_current_alarm" -> get_current_alarm(m)

\* the calls a program makes, one or two for each public method
LiveCalls ==
    <<[call |-> "init", args |-> NoArgs],
      [call |-> "set_peak_current", args |-> [phase_current |-> F32(FALSE, 2, 0)]],
      [call |-> "set_motor_inductance", args |-> [inductance |-> 1000]],
      [call |-> "forced_enable_by_software", args |-> [enable |-> TRUE]],
      [call |-> "save_param_eeprom", args |-> NoArgs],
      [call |-> "param_reset", args |-> NoArgs],
      [call |-> "factory_reset", args |-> NoArgs],
      [call |-> "save_mapping_eeprom", args |-> NoArgs],
      [call |-> "jog_motor", args |-> [direction |-> "Clockwise"]],
      [call |-> "configure_input", args |-> [input_no |-> 1, function |-> "Org", normally_closed |-> FALSE]],
      [call |-> "get_input_status", args |-> NoArgs],
      [call |-> "get_motion_status", args |-> NoArgs],
      [call |-> "is_path_completed", args |-> NoArgs],
      [call |-> "is_homing_completed", args |-> NoArgs],
      [call |-> "set_ctrg_effective_edge", args |-> [double_edge |-> TRUE]],
      [call |-> "soft_limit_control", args |-> [enable |-> TRUE]],
      [call |-> "set_soft_limit_max", args |-> [max |-> 5000]],
      [call |-> "set_soft_limit_min", args |-> [min |-> 5000]],
      [call |-> "homing_power_up_control", args |-> [enable |-> TRUE]],
      [call |-> "set_ctrg_trigger_type", args |-> [level_trigger |-> TRUE]],
      [call |-> "configure_homing", args |-> [direction |-> "Clockwise", move_to_pos |-> TRUE, method |-> "HomeSwitch"]],
      [call |-> "set_homing_position", args |-> [position |-> 5000]],
      [call |-> "set_homing_stop_position", args |-> [position |-> 5000]],
      [call |-> "set_homing_high_velocity", args |-> [rpm |-> 300]],
      [call |-> "set_homing_low_velocity", args |-> [rpm |-> 300]],
      [call |-> "set_homing_acceleration", args |-> [acc |-> 300]],
      [call |-> "set_homing_deceleration", args |-> [dec |-> 300]],
      [call |-> "apply_homing_config", args |-> [config |-> HomingConfig(1, "Org", FALSE, "Clockwise", TRUE, "HomeSwitch", 0, 1000, 200, 50, 100, 100)]],
      [call |-> "start_homing", args |-> NoArgs],
      [call |-> "start_path", args |-> [path_id |-> 0]],
      [call |-> "stop_motor", args |-> NoArgs],
      [call |-> "manual_zero", args |-> NoArgs],
      [call |-> "configure_path_motion", args |-> [path_id |-> 0, motion_type |-> "PositionPositioning", interrupt |-> FALSE, overlap |-> FALSE, absolute |-> TRUE, jump |-> FALSE, jump_to |-> 0]],
      [call |-> "set_path_position", args |-> [path_id |-> 0, position |-> 5000]],
      [call |-> "set_path_velocity", args |-> [path_id |-> 0, rpm |-> 300]],
      [call |-> "set_path_acceleration", args |-> [path_id |-> 0, acc |-> 300]],
      [call |-> "set_path_deceleration", args |-> [path_id |-> 0, dec |-> 300]],
      [call |-> "set_path_pause_time", args |-> [path_id |-> 0, ms |-> 300]],
      [call |-> "apply_path_config", args |-> [config |-> PathConfig(0, TRUE, 5000, 300, 150, 150, 500)]],
      [call |-> "get_version", args |-> NoArgs],
      [call |-> "get_current_alarm", args |-> NoArgs],
      [call |-> "start_path", args |-> [path_id |-> 9]],
      [call |-> "configure_input", args |-> [input_no |-> 8, function |-> "Org", normally_closed |-> FALSE]],
      [call |-> "apply_path_config", args |-> [config |-> PathConfig(8, FALSE, 131073, 400, 200, 210, 0)]]>>

\* the result of a method that waits for the channel
Running == [kind |-> "Running"]

\* the method after the answers its register calls have got so far: it has
\* returned, or it waits for its next call (the run is replayed on those
\* answers, with every later call acknowledged)
Proceed(call, a) ==
    \E ans \in {SelectSeq(log, LAMBDA e : e.call # "set_slave")} :
    \E r \in {Em2rsClient(call,
                Start([i \in 1..12 |-> IF i <= Len(ans) THEN ans[i].resp ELSE "ok"]), a)} :
        \E rc \in {{i \in 1..Len(r.log) : r.log[i].call # "set_slave"}} :
            IF Cardinality(rc) > Len(ans)
            THEN \E n \in {i \in rc : Cardinality({j \in rc : j <= i}) = Len(ans) + 1} :
                    /\ log' = [i \in 1..n |-> IF i = n THEN [r.log[i] EXCEPT !.resp = "pending"]
                                              ELSE r.log[i]]
                    /\ res' = Running
                    /\ UNCHANGED <<regs, ctx_slave>>
            ELSE /\ log' = r.log
                 /\ res' = r.res
                 /\ regs' = r.regs
                 /\ ctx_slave' = r.slave

\* the program calls a method of the live client
Begin ==
    /\ client # NoClient
    /\ res.kind # "Running"
    /\ nops < MaxOps
    /\ \E i \in 1..Len(LiveCalls) :
        /\ op' = LiveCalls[i].call
        /\ args' = LiveCalls[i].args
    /\ log' = <<>>
    /\ res' = Running
    /\ nops' = nops + 1
    /\ UNCHANGED <<regs, ctx_slave, client>>

\* the method runs to its next register call, or to its return
Resume ==
    /\ res.kind = "Running"
    /\ (log # <<>> => log[Len(log)].resp # "pending")
    /\ Proceed(op, args)
    /\ UNCHANGED <<client, op, args, nops>>

\* the channel returns the pending register call, with success or failure
Answer ==
    /\ res.kind = "Running"
    /\ log # <<>>
    /\ log[Len(log)].resp = "pending"
    /\ \E f \in {"ok", "err"} : log' = [log EXCEPT ![Len(log)].resp = f]
    /\ UNCHANGED <<regs, ctx_slave, client, op, args, res, nops>>

LiveNext ==
    \/ New
    \/ Begin
    \/ Resume
    \/ Answer

\* the method keeps running, and every register call eventually returns
SpecLive == Init /\ [][LiveNext]_vars /\ WF_vars(Resume) /\ WF_vars(Answer)

(***************************************************************************)
(* Reading the record of the last call.                                    *)
(***************************************************************************)
IsReg(e) == e.call \in {"read", "write"}
Writes(l) == SelectSeq(l, LAMBDA e : e.call = "write")
Reads(l) == SelectSeq(l, LAMBDA e : e.call = "read")
RegCalls(l) == SelectSeq(l, IsReg)
\* the channel acknowledged every register call of l
AllAck(l) == \A i \in 1..Len(l) : IsReg(l[i]) => l[i].resp = "ok"
\* l holds register writes only
OnlyWrites(l) == \A i \in 1..Len(l) : l[i].call = "write"
Addresses(l) == [i \in 1..Len(l) |-> l[i].addr]
Values(l) == [i \in 1..Len(l) |-> l[i].value]

\* registers r after the first n of the writes ws took effect
RECURSIVE Applied(_, _, _)
Applied(r, ws, n) ==
    IF n = 0 THEN r
    ELSE [Applied(r, ws, n - 1) EXCEPT ![ws[n].slave][ws[n].addr] = ws[n].value]

\* the methods that take a path id, and the id the last call was given
PathMethods ==
    {"configure_path_motion", "set_path_position", "set_path_velocity",
     "set_path_acceleration", "set_path_deceleration", "set_path_pause_time",
     "apply_path_config", "start_path"}
PathIdArg == IF op = "apply_path_config" THEN args.config.path_id ELSE args.path_id
\* the last call returned the error `variant` carrying v
Failed(variant, v) == res.kind = "Err" /\ res.err = variant /\ res.val = v

(***************************************************************************)
(* C1.  For every k in 1..11: when the k-th register write of              *)
(* apply_homing_config fails and the k-1 writes before it succeed, the     *)
(* call returns an error, exactly the first k-1 writes have taken effect   *)
(* on the device, and no write after the k-th is issued.                   *)
(***************************************************************************)
C1_HomingStopsAtFailedWrite ==
    [][op' = "apply_homing_config" =>
        LET W == Writes(log')
        IN  \A k \in 1..11 :
              (/\ k <= Len(W)
               /\ W[k].resp # "ok"
               /\ \A j \in 1..(k - 1) : W[j].resp = "ok")
              => /\ res'.kind = "Err"
                 /\ Len(W) = k
                 /\ regs' = Applied(regs, W, k - 1)]_vars

(***************************************************************************)
(* C2.  Whenever a client issues a register read or write, the channel     *)
(* addresses that client's own slave id; this holds for every method and   *)
(* also for a client built on a channel another client gave back.          *)
(***************************************************************************)
C2_AddressedToOwnIdentity ==
    client # NoClient =>
        \A i \in 1..Len(log) : IsReg(log[i]) => log[i].slave = client.slave_id

(***************************************************************************)
(* C3.  A single-register write that the device answers with an exception  *)
(* code makes write_register return an error: the method returns an error  *)
(* and issues no further write.                                            *)
(***************************************************************************)
C3_WriteExceptionIsError ==
    \A i \in 1..Len(log) :
        (log[i].call = "write" /\ log[i].resp = "exc")
        => (res.kind = "Err" /\ i = Len(log))

(***************************************************************************)
(* C4 as claimed.  apply_path_config with a path id in 0..8 and            *)
(* pause_time = 0, on a channel that acknowledges every write, issues      *)
(* exactly 5 register writes.                                              *)
(***************************************************************************)
C4_FiveWrites ==
    (/\ op = "apply_path_config"
     /\ args.config.path_id \in 0..8
     /\ args.config.pause_time = 0
     /\ AllAck(log))
    => Len(Writes(log)) = 5

(***************************************************************************)
(* C4 amended.  Under the same conditions apply_path_config issues exactly *)
(* 6 register writes (control word, position high, position low,          *)
(* velocity, acceleration, deceleration) and no other channel call.        *)
(***************************************************************************)
C4_SixWrites ==
    (/\ op = "apply_path_config"
     /\ args.config.path_id \in 0..8
     /\ args.config.pause_time = 0
     /\ AllAck(log))
    => (Len(Writes(log)) = 6 /\ Len(log) = 6)

C4_Witness ==
    /\ op = "apply_path_config"
    /\ args.config = PathConfig(0, TRUE, 5000, 300, 150, 150, 0)
    /\ AllAck(log)
    /\ res = Ok(Unit)
    /\ Len(Writes(log)) = 6

(***************************************************************************)
(* C5.  On a channel that acknowledges every write, apply_path_config for  *)
(* path id p with base B = 0x6200 + 8p writes, in this order: the control  *)
(* word at B+0, the position's high word at B+1, its low word at B+2, the  *)
(* velocity at B+3, the acceleration at B+4, the deceleration at B+5 and   *)
(* then, only when it is written at all, the pause time at B+6; it writes  *)
(* no other register.                                                      *)
(***************************************************************************)
C5_PathWriteOrder ==
    (/\ op = "apply_path_config"
     /\ args.config.path_id \in 0..8
     /\ AllAck(log))
    => LET c == args.config
           B == 25088 + 8 * c.path_id
           tail == IF Len(log) > 6 THEN <<B + 6>> ELSE <<>>
       IN  /\ OnlyWrites(log)
           /\ Len(log) \in {6, 7}
           /\ Addresses(log) = <<B, B + 1, B + 2, B + 3, B + 4, B + 5>> \o tail
           /\ SubSeq(Values(log), 2, 6)
                = <<c.position \div 65536, c.position % 65536,
                    c.velocity, c.acceleration, c.deceleration>>
           /\ Len(log) = 7 => log[7].value = c.pause_time

C5_Witness ==
    /\ op = "apply_path_config"
    /\ args.config = PathConfig(3, FALSE, 2147483647, 65535, 1, 2, 1)
    /\ AllAck(log)
    /\ Addresses(log) = <<25112, 25113, 25114, 25115, 25116, 25117, 25118>>
    /\ Values(log)[2] = 32767
    /\ Values(log)[3] = 65535

(***************************************************************************)
(* C6.  apply_path_config writes the pause-time register (path base + 6)   *)
(* only if config.pause_time is non-zero, and a call that returns Ok has   *)
(* written it if and only if pause_time is non-zero; when pause_time is 0  *)
(* the register keeps the value it had, so a non-zero pause time put there *)
(* earlier is still on the device afterwards.                              *)
(***************************************************************************)
C6_PauseTimeOnlyWhenNonZero ==
    [][(op' = "apply_path_config" /\ args'.config.path_id \in 0..8) =>
        LET c == args'.config
            P == 25088 + 8 * c.path_id + 6
            written == \E i \in 1..Len(log') : log'[i].call = "write" /\ log'[i].addr = P
        IN  /\ written => c.pause_time # 0
            /\ res'.kind = "Ok" => (written <=> c.pause_time # 0)
            /\ c.pause_time = 0 => \A s \in Slaves : regs'[s][P] = regs[s][P]]_vars

C6_Witness ==
    /\ op = "apply_path_config"
    /\ args.config.path_id = 0
    /\ args.config.pause_time = 0
    /\ res = Ok(Unit)
    /\ AllAck(log)
    /\ Len(log) = 6
    /\ regs[ctx_slave][25094] = 750

(***************************************************************************)
(* C7.  On a channel that acknowledges every write, apply_homing_config    *)
(* with input number n in 1..7 issues exactly 11 writes in this order:     *)
(* SI1+(n-1)*2, HOME_MODE (0x600A), 0x601A with value 2, home position     *)
(* high (0x600B) then low (0x600C), stop position high (0x600D) then low   *)
(* (0x600E), high velocity (0x600F), low velocity (0x6010), acceleration   *)
(* (0x6011), deceleration (0x6012).                                        *)
(***************************************************************************)
C7_HomingWriteOrder ==
    (/\ op = "apply_homing_config"
     /\ args.config.input_no \in 1..7
     /\ AllAck(log))
    => LET c == args.config
       IN  /\ OnlyWrites(log)
           /\ Addresses(log)
                = <<325 + (c.input_no - 1) * 2, 24586, 24602, 24587, 24588, 24589,
                    24590, 24591, 24592, 24593, 24594>>
           /\ log[3].value = 2
           /\ SubSeq(Values(log), 4, 11)
                = <<c.position \div 65536, c.position % 65536,
                    c.position_stop \div 65536, c.position_stop % 65536,
                    c.high_velocity, c.low_velocity, c.acceleration, c.deceleration>>

C7_Witness ==
    /\ op = "apply_homing_config"
    /\ args.config.input_no = 7
    /\ AllAck(log)
    /\ res = Ok(Unit)
    /\ Len(log) = 11
    /\ log[1].addr = 337
    /\ log[11].addr = 24594

(***************************************************************************)
(* C8.  For every path id greater than 8, each method that takes a path id *)
(* returns the InvalidPath error carrying that id and makes no channel     *)
(* call (no read, no write), whatever its other arguments are.             *)
(***************************************************************************)
C8_InvalidPathNoIo ==
    (op \in PathMethods /\ PathIdArg > 8)
    => (Failed("InvalidPath", PathIdArg) /\ log = <<>>)

C8_Witness ==
    /\ op = "start_path"
    /\ args.path_id = 9
    /\ Failed("InvalidPath", 9)
    /\ log = <<>>

(***************************************************************************)
(* C9.  For every input number that is 0 or at least 8, configure_input    *)
(* and apply_homing_config return the InvalidDigitalInput error carrying   *)
(* that number and issue no register write; apply_homing_config writes     *)
(* none of its homing registers.                                           *)
(***************************************************************************)
C9_InvalidInputNoWrite ==
    /\ (op = "configure_input" /\ ~(args.input_no \in 1..7))
       => (Failed("InvalidDigitalInput", args.input_no) /\ log = <<>>)
    /\ (op = "apply_homing_config" /\ ~(args.config.input_no \in 1..7))
       => (Failed("InvalidDigitalInput", args.config.input_no) /\ log = <<>>)

C9_Witness ==
    /\ op = "apply_homing_config"
    /\ args.config.input_no = 8
    /\ Failed("InvalidDigitalInput", 8)
    /\ log = <<>>

(***************************************************************************)
(* C10.  In every method a register call that fails is issued once, the    *)
(* method returns that failure, and no register call after it is issued;   *)
(* a method returns success only when every register call it made          *)
(* succeeded.                                                              *)
(***************************************************************************)
C10_FirstFailureReturned ==
    /\ \A i \in 1..Len(log) :
          (IsReg(log[i]) /\ log[i].resp \in {"exc", "err"})
          => (i = Len(log) /\ res.kind = "Err")
    /\ res.kind = "Ok" =>
          \A i \in 1..Len(log) : IsReg(log[i]) => log[i].resp \in {"ok", "empty"}

WideSetters ==
    {"set_path_position", "set_homing_position", "set_homing_stop_position",
     "set_soft_limit_max", "set_soft_limit_min"}
WideCall == op \in WideSetters /\ (op = "set_path_position" => args.path_id \in 0..8)
WideHigh ==
    CASE op = "set_path_position" -> 25088 + 8 * args.path_id + 1
      [] op = "set_homing_position" -> 24587
      [] op = "set_homing_stop_position" -> 24589
      [] op = "set_soft_limit_max" -> 24582
      [] op = "set_soft_limit_min" -> 24584
WideValue ==
    CASE op = "set_soft_limit_max" -> args.max
      [] op = "set_soft_limit_min" -> args.min
      [] OTHER -> args.position

(***************************************************************************)
(* C12.  Every setter of a 32-bit quantity writes the high word to the     *)
(* high register first and then the low word to the low register, and it   *)
(* issues the low-word write only if the high-word write succeeded.        *)
(***************************************************************************)
C12_HighWordBeforeLowWord ==
    WideCall =>
        /\ OnlyWrites(log)
        /\ Len(log) \in 1..2
        /\ log[1].addr = WideHigh
        /\ Len(log) = 2 <=> log[1].resp = "ok"
        /\ Len(log) = 2 => log[2].addr = WideHigh + 1

\* 32-bit values at the edges of the two words
U32Samples ==
    {0, 1, 255, 256, 5000, 32768, 65535, 65536, 65537, 131073, 16777216,
     1073741824, 2147418112, 2147418113, 2147483647}

(***************************************************************************)
(* C13.  For every 32-bit value P the two words a 32-bit setter writes are *)
(* high = (P >> 16) & 0xFFFF and low = P & 0xFFFF, each in 0..65535, and   *)
(* high * 65536 + low is P again.                                          *)
(***************************************************************************)
C13_WordsRejoin ==
    /\ WideCall =>
          \A P \in U32Samples :
              /\ HighWord(P) \in 0..65535
              /\ LowWord(P) \in 0..65535
              /\ HighWord(P) * 65536 + LowWord(P) = P
    /\ (WideCall /\ Len(log) = 2) =>
          LET high == log[1].value
              low == log[2].value
          IN  /\ high \in 0..65535
              /\ low \in 0..65535
              /\ high = (WideValue \div 65536) % 65536
              /\ low = WideValue % 65536
              /\ high * 65536 + low = WideValue

C13_Witness ==
    /\ op = "set_soft_limit_max"
    /\ args.max = 2147418113
    /\ AllAck(log)
    /\ Values(log) = <<32767, 1>>

\* phase * 1.4 * 10.0 as u16, the peak current derived from a phase current
PeakWord(phase) == F32_as_u16(F32Mul(F32Mul(phase, F32_1_4), F32_10_0))

(***************************************************************************)
(* C14.  init first sets the channel target to the configured slave id     *)
(* and then, on a channel that acknowledges every write, issues exactly    *)
(* four writes to that slave in this order: PULSE_PER_REV (0x0001) with    *)
(* pulse_per_rev, MOTOR_DIRECTION (0x0007) with the direction code,        *)
(* PEAK_CURRENT (0x0191) with the derived peak current, MOTOR_INDUCTANCE   *)
(* (0x0009) with the clamped inductance.                                   *)
(***************************************************************************)
C14_InitSequence ==
    op = "init" =>
        LET c == client.config
        IN  /\ Len(log) >= 1
            /\ log[1] = [call |-> "set_slave", slave |-> c.slave_id]
            /\ \A i \in 2..Len(log) : log[i].call = "write" /\ log[i].slave = c.slave_id
            /\ AllAck(log) =>
                 /\ Len(log) = 5
                 /\ Addresses(SubSeq(log, 2, 5)) = <<1, 7, 401, 9>>
                 /\ Values(SubSeq(log, 2, 5))
                      = <<c.pulse_per_rev,
                          IF c.direction = "Clockwise" THEN 0 ELSE 1,
                          PeakWord(c.phase_current),
                          IF c.inductance > 10000 THEN 10000 ELSE c.inductance>>

C14_Witness ==
    /\ op = "init"
    /\ client.slave_id = 2
    /\ ctx_slave = 2
    /\ AllAck(log)
    /\ res = Ok(Unit)
    /\ Values(SubSeq(log, 2, 5)) = <<400, 1, 21, 10000>>

\* floor(a * 14) for a finite non-negative f32 a
Floor14(a) == IF a.e >= 0 THEN a.m * (2 ^ a.e) * 14 ELSE (a.m * 14) \div (2 ^ (-a.e))

(***************************************************************************)
(* C15.  For every phase current of the range (0.5 A to 13 A here),        *)
(* set_peak_current issues one write to PEAK_CURRENT whose value is        *)
(* floor(phase_current * 14.0) truncated to 16 bits.                       *)
(***************************************************************************)
C15_PeakCurrentIsFloor ==
    (op = "set_peak_current" /\ ~args.phase_current.neg) =>
        /\ Len(log) = 1
        /\ log[1].call = "write"
        /\ log[1].addr = 401
        /\ log[1].value = Floor14(args.phase_current) % 65536

(***************************************************************************)
(* C16.  For every 16-bit inductance, set_motor_inductance (and so init)   *)
(* writes min(inductance, 10000) to MOTOR_INDUCTANCE: exactly 10000 when   *)
(* the inductance is above 10000, the unchanged value otherwise; it never  *)
(* returns a validation error for a value that is too large.               *)
(***************************************************************************)
C16_InductanceClamped ==
    /\ op = "set_motor_inductance" =>
          /\ Len(log) = 1
          /\ log[1].call = "write"
          /\ log[1].addr = 9
          /\ log[1].value = IF args.inductance > 10000 THEN 10000 ELSE args.inductance
          /\ log[1].resp # "err" => res.kind = "Ok"
          /\ res.kind = "Err" => res.err = "ModbusProtocol"
    /\ (op = "init" /\ Len(log) = 5) =>
          /\ log[5].addr = 9
          /\ log[5].value = IF client.config.inductance > 10000 THEN 10000
                            ELSE client.config.inductance

C16_Witness ==
    /\ op = "set_motor_inductance"
    /\ args.inductance = 65535
    /\ log[1].value = 10000
    /\ res.kind = "Ok"

(***************************************************************************)
(* C17.  get_path_base returns the address 0x6200 + 8 * id for every id    *)
(* in 0..8 and None, never an address, for every id from 9 to 255; a path  *)
(* setter so writes inside the block of its path or not at all.            *)
(***************************************************************************)
C17_PathBaseTotal ==
    op = "set_path_velocity" =>
        /\ \A id \in 0..8 : get_path_base(id).some /\ get_path_base(id).val = 25088 + 8 * id
        /\ \A id \in 9..255 : ~get_path_base(id).some /\ get_path_base(id) = None
        /\ IF args.path_id <= 8
           THEN Len(log) = 1 /\ log[1].addr = 25088 + 8 * args.path_id + 3
           ELSE log = <<>>

C17_Witness ==
    /\ op = "set_path_velocity"
    /\ args.path_id = 8
    /\ Len(log) = 1
    /\ log[1].addr = 25155

(***************************************************************************)
(* C18.  For every input number n in 1..7, configure_input issues exactly  *)
(* one write, to register SI1 + (n-1)*2, which is the constant SIn         *)
(* (0x0145, 0x0147, ..., 0x0151), with the function code plus 0x0080 when  *)
(* normally_closed is set.                                                 *)
(***************************************************************************)
C18_InputRegister ==
    /\ op = "configure_input" =>
          \A n \in 1..7 :
              /\ SI1 + (n - 1) * 2 = <<SI1, SI2, SI3, SI4, SI5, SI6, SI7>>[n]
              /\ SI1 + (n - 1) * 2 = <<325, 327, 329, 331, 333, 335, 337>>[n]
    /\ (op = "configure_input" /\ args.input_no \in 1..7) =>
          /\ Len(log) = 1
          /\ log[1].call = "write"
          /\ log[1].addr = <<SI1, SI2, SI3, SI4, SI5, SI6, SI7>>[args.input_no]
          /\ log[1].value = DigitalInputFunction_u16(args.function)
                              + (IF args.normally_closed THEN 128 ELSE 0)

C18_Witness ==
    /\ op = "configure_input"
    /\ args = [input_no |-> 4, function |-> "JogVelocity", normally_closed |-> TRUE]
    /\ Len(log) = 1
    /\ log[1].addr = 331
    /\ log[1].value = 172

(***************************************************************************)
(* C19.  PathConfig::new(id) fails with the InvalidPath error carrying id  *)
(* for every id greater than 8 and succeeds with path_id = id for every id *)
(* in 0..8; in both cases it makes no channel call.                        *)
(***************************************************************************)
C19_PathConfigNew ==
    [][op' = "PathConfig_new" =>
        /\ \A id \in 0..8 :
              PathConfig_new(id).kind = "Ok" /\ PathConfig_new(id).val.path_id = id
        /\ \A id \in 9..255 :
              /\ PathConfig_new(id).kind = "Err"
              /\ PathConfig_new(id).err = "InvalidPath"
              /\ PathConfig_new(id).val = id
        /\ log' = <<>>
        /\ UNCHANGED <<regs, ctx_slave, client>>
        /\ IF args'.path_id <= 8
           THEN res'.kind = "Ok" /\ res'.val.path_id = args'.path_id
           ELSE /\ res'.kind = "Err"
                /\ res'.err = "InvalidPath"
                /\ res'.val = args'.path_id]_vars

C19_Witness ==
    /\ op = "PathConfig_new"
    /\ args.path_id = 9
    /\ Failed("InvalidPath", 9)
    /\ log = <<>>

(***************************************************************************)
(* C20.  Every PathConfig that reaches apply_path_config has its path_id   *)
(* in 0..8 and every HomingConfig that reaches apply_homing_config has its *)
(* input_no in 1..7, however the caller built or modified the object.      *)
(***************************************************************************)
C20_ConfigsValidByConstruction ==
    /\ op = "apply_path_config" => args.config.path_id \in 0..8
    /\ op = "apply_homing_config" => args.config.input_no \in 1..7

(***************************************************************************)
(* C22.  For every N in 0..8, start_path(N) issues exactly one register    *)
(* write, to PR_CTRL (0x6002), with the value 0x0010 + N.                  *)
(***************************************************************************)
C22_StartPathWord ==
    op = "start_path" =>
        /\ \A N \in 0..8 :
              \A r \in {start_path(Start(<<"ok">>), N)} :
                  /\ Len(r.log) = 1
                  /\ r.log[1].call = "write"
                  /\ r.log[1].addr = 24578
                  /\ r.log[1].value = 16 + N
        /\ args.path_id \in 0..8 =>
              /\ Len(log) = 1
              /\ log[1].call = "write"
              /\ log[1].addr = 24578
              /\ log[1].value = 16 + args.path_id

C22_Witness ==
    /\ op = "start_path"
    /\ args.path_id = 8
    /\ AllAck(log)
    /\ Len(log) = 1
    /\ log[1].value = 24

\* the command methods with the register and the word each of them writes
Commands ==
    {"save_param_eeprom", "param_reset", "factory_reset", "save_mapping_eeprom",
     "jog_motor", "start_homing", "manual_zero", "stop_motor"}
CommandWrite ==
    CASE op = "save_param_eeprom" -> <<6145, 8721>>
      [] op = "param_reset" -> <<6145, 8738>>
      [] op = "factory_reset" -> <<6145, 8755>>
      [] op = "save_mapping_eeprom" -> <<6145, 8772>>
      [] op = "jog_motor" ->
            <<6145, IF args.direction = "Clockwise" THEN 16385 ELSE 16386>>
      [] op = "start_homing" -> <<24578, 32>>
      [] op = "manual_zero" -> <<24578, 33>>
      [] op = "stop_motor" -> <<24578, 64>>

(***************************************************************************)
(* C23.  Each command call issues exactly one register write and no read:  *)
(* save_param_eeprom, param_reset, factory_reset, save_mapping_eeprom and  *)
(* jog_motor write CONTROL_WORD (0x1801) with 0x2211, 0x2222, 0x2233,      *)
(* 0x2244 and 0x4001 (clockwise) or 0x4002 (counter-clockwise);            *)
(* start_homing, manual_zero and stop_motor write PR_CTRL (0x6002) with    *)
(* 0x20, 0x21 and 0x40.                                                    *)
(***************************************************************************)
C23_CommandWrites ==
    op \in Commands =>
        /\ Len(log) = 1
        /\ log[1].call = "write"
        /\ <<log[1].addr, log[1].value>> = CommandWrite

C23_Witness ==
    /\ op = "jog_motor"
    /\ args.direction = "CounterClockwise"
    /\ AllAck(log)
    /\ <<log[1].addr, log[1].value>> = <<6145, 16386>>

\* the per-field setters of the session
WordSetters ==
    {"set_peak_current", "set_motor_inductance", "forced_enable_by_software",
     "configure_input", "set_ctrg_effective_edge", "soft_limit_control",
     "homing_power_up_control", "set_ctrg_trigger_type",
     "set_homing_high_velocity", "set_homing_low_velocity",
     "set_homing_acceleration", "set_homing_deceleration",
     "configure_path_motion", "set_path_velocity", "set_path_acceleration",
     "set_path_deceleration", "set_path_pause_time"}
PairSetters ==
    {"set_soft_limit_max", "set_soft_limit_min", "configure_homing",
     "set_homing_position", "set_homing_stop_position", "set_path_position"}
PerFieldSetters == WordSetters \cup PairSetters

\* C27 as stated: every per-field setter issues exactly one register write
\* per successful call.
C27_OneWritePerSetter ==
    (op \in PerFieldSetters /\ res.kind = "Ok") => Len(Writes(log)) = 1

(***************************************************************************)
(* C27.  A successful call of a per-field setter issues exactly one        *)
(* register write when the field is one register, and exactly two when it  *)
(* is a 32-bit quantity (set_soft_limit_max, set_soft_limit_min,           *)
(* set_homing_position, set_homing_stop_position, set_path_position: high  *)
(* word, then low word) or the homing mode (configure_homing: HOME_MODE,   *)
(* then 0x601A).                                                           *)
(***************************************************************************)
C27_WritesPerSetter ==
    (op \in PerFieldSetters /\ res.kind = "Ok") =>
        Len(Writes(log)) = IF op \in PairSetters THEN 2 ELSE 1

C27_Witness ==
    /\ op = "set_soft_limit_min"
    /\ res.kind = "Ok"
    /\ AllAck(log)
    /\ Len(Writes(log)) = 2

\* bitwise OR of two naturals
RECURSIVE BitOr(_, _)
BitOr(a, b) ==
    IF a = 0 THEN b
    ELSE IF b = 0 THEN a
    ELSE (IF a % 2 = 1 \/ b % 2 = 1 THEN 1 ELSE 0) + (2 * BitOr(a \div 2, b \div 2))

\* the components of the three configuration words, joined by bitwise OR
HomingWordOr(direction, move_to_pos, method) ==
    BitOr(BitOr(Direction_u16(direction), IF move_to_pos THEN 2 ELSE 0),
          HomingMethod_u16(method))
InputWordOr(function, normally_closed) ==
    BitOr(DigitalInputFunction_u16(function), IF normally_closed THEN 128 ELSE 0)
PathWordOr(motion_type, interrupt, overlap, absolute, jump, jump_to) ==
    BitOr(BitOr(BitOr(PathMotionType_u16(motion_type),
                      IF interrupt THEN 16 ELSE 0),
                BitOr(IF overlap THEN 32 ELSE 0,
                      IF absolute THEN 0 ELSE 64)),
          IF jump THEN BitOr(16384, (jump_to % 16) * 256) ELSE 0)

(***************************************************************************)
(* C30.  The configuration words the code builds by addition equal the     *)
(* bitwise OR of their components: the homing-mode word (direction 0/1,    *)
(* move-after flag 0x0002, method 0x00/0x04), the digital-input word       *)
(* (function code, normally-closed 0x0080) and the path control word       *)
(* (motion type 0..3, interrupt 0x0010, overlap 0x0020, relative 0x0040,   *)
(* jump 0x4000, jump target in bits 8..11).                                *)
(***************************************************************************)
C30_SumIsBitwiseOr ==
    /\ op = "configure_homing" =>
          log[1].value = HomingWordOr(args.direction, args.move_to_pos, args.method)
    /\ op = "configure_input" =>
          /\ Len(log) = 1 =>
                log[1].value = InputWordOr(args.function, args.normally_closed)
          /\ \A f \in DigitalInputFunction, nc \in BOOLEAN :
                configure_input(Start(<<"ok">>), 1, f, nc).log[1].value
                    = InputWordOr(f, nc)
    /\ op = "configure_path_motion" =>
          /\ Len(log) = 1 =>
                log[1].value = PathWordOr(args.motion_type, args.interrupt,
                                          args.overlap, args.absolute,
                                          args.jump, args.jump_to)
          /\ \A t \in 0..15 :
                configure_path_motion(Start(<<"ok">>), 0, args.motion_type,
                                      args.interrupt, args.overlap,
                                      args.absolute, TRUE, t).log[1].value
                    = PathWordOr(args.motion_type, args.interrupt,
                                 args.overlap, args.absolute, TRUE, t)

C30_Witness ==
    /\ op = "configure_path_motion"
    /\ args.motion_type = "Homing"
    /\ args.interrupt /\ args.overlap /\ ~args.absolute /\ args.jump
    /\ args.jump_to = 15
    /\ Len(log) = 1
    /\ log[1].value = 20339

\* the bit each predicate of a register is about
FlagBits ==
    [MotionStatus |->
        [is_fault |-> 0, is_enabled |-> 1, is_running |-> 2,
         is_cmd_complete |-> 4, is_path_complete |-> 5, is_homing_complete |-> 6],
     CurrentAlarm |->
        [has_over_current |-> 0, has_over_voltage |-> 1,
         has_current_sampling_fault |-> 6, has_failed_lock_shaft |-> 7,
         has_autotuning_fault |-> 8, has_eeprom_fault |-> 9]]
BitIsSet(w, k) == (w \div (2 ^ k)) % 2 = 1
Flipped(w, k) == IF BitIsSet(w, k) THEN w - (2 ^ k) ELSE w + (2 ^ k)

(***************************************************************************)
(* C21.  For every 16-bit word w and every flag bit b of the motion status *)
(* (0x0001 fault, 0x0002 enabled, 0x0004 running, 0x0010 command-complete, *)
(* 0x0020 path-complete, 0x0040 homing-complete) or of the alarm register  *)
(* (0x01 over-current, 0x02 over-voltage, 0x40 current-sampling, 0x80      *)
(* failed-lock-shaft, 0x100 autotuning, 0x200 EEPROM), the predicate for b *)
(* is true exactly when b is set in w, and flipping b in w changes the     *)
(* result of no other predicate of that register.                          *)
(***************************************************************************)
C21_FlagsIndependent ==
    [][op' \in DOMAIN FlagBits =>
          /\ DOMAIN res'.val = DOMAIN FlagBits[op']
          /\ \A f \in DOMAIN FlagBits[op'] :
                res'.val[f] = BitIsSet(args'.word, FlagBits[op'][f])
          /\ op = op' =>
                \A f \in DOMAIN FlagBits[op] :
                    args'.word = Flipped(args.word, FlagBits[op][f]) =>
                        /\ res'.val[f] = ~res.val[f]
                        /\ \A g \in DOMAIN FlagBits[op] \ {f} :
                              res'.val[g] = res.val[g]]_vars

C21_Witness ==
    /\ op = "CurrentAlarm"
    /\ args.word = 576
    /\ res.val.has_eeprom_fault
    /\ res.val.has_current_sampling_fault
    /\ ~res.val.has_autotuning_fault

\* the wire enumerations: their variants and their conversion
WireEnums ==
    [Direction |-> Direction,
     DigitalInputFunction |-> DigitalInputFunction,
     DigitalOutputFunction |-> DigitalOutputFunction,
     ControlWord |-> ControlWord,
     HomingMethod |-> HomingMethod,
     PrControlCommand |-> PrControlCommand,
     PathMotionType |-> PathMotionType]
Word(enum, v) ==
    CASE enum = "Direction" -> Direction_u16(v)
      [] enum = "DigitalInputFunction" -> DigitalInputFunction_u16(v)
      [] enum = "DigitalOutputFunction" -> DigitalOutputFunction_u16(v)
      [] enum = "ControlWord" -> ControlWord_u16(v)
      [] enum = "HomingMethod" -> HomingMethod_u16(v)
      [] enum = "PrControlCommand" -> PrControlCommand_u16(v)
      [] enum = "PathMotionType" -> PathMotionType_u16(v)
\* a decoder: some variant of the enumeration with the word w
Decode(enum, w) == CHOOSE v \in WireEnums[enum] : Word(enum, v) = w

(***************************************************************************)
(* C28.  Within each wire enumeration (Direction, DigitalInputFunction,    *)
(* DigitalOutputFunction, ControlWord, HomingMethod, PrControlCommand,     *)
(* PathMotionType) the conversion to a 16-bit word gives each variant its  *)
(* one fixed value and gives different variants different values, so a     *)
(* decoder that maps the word back recovers the variant exactly.           *)
(***************************************************************************)
C28_EnumRoundTrip ==
    op \in DOMAIN WireEnums =>
        /\ res.val \in 0..65535
        /\ res.val = Word(op, args.variant)
        /\ \A v \in WireEnums[op] : Word(op, v) = res.val => v = args.variant
        /\ Decode(op, res.val) = args.variant

C28_Witness ==
    /\ op = "DigitalOutputFunction"
    /\ args.variant = "PathCompleted"
    /\ res.val = 33
    /\ Decode(op, 33) = "PathCompleted"

\* the register of each getter
GetterRegister ==
    [get_motion_status |-> 4099, get_current_alarm |-> 8707,
     get_input_status |-> 377, get_version |-> 511]

(***************************************************************************)
(* C25.  get_motion_status, get_current_alarm, get_input_status and        *)
(* get_version each issue exactly one one-register read of their own       *)
(* register (0x1003, 0x2203, 0x0179, 0x01FF) on every call and return the  *)
(* word of that read: the word the device holds when the call is made,     *)
(* whatever an earlier call has read.                                      *)
(***************************************************************************)
C25_GettersReadTheDevice ==
    [][op' \in DOMAIN GetterRegister =>
          /\ Len(log') = 1
          /\ log'[1].call = "read"
          /\ log'[1].slave = ctx_slave
          /\ log'[1].addr = GetterRegister[op']
          /\ log'[1].value = 1
          /\ regs' = regs
          /\ log'[1].resp = "ok" =>
                /\ res'.kind = "Ok"
                /\ res'.val = regs[ctx_slave][GetterRegister[op']]]_vars

C25_Witness ==
    /\ op = "get_current_alarm"
    /\ nops >= 2
    /\ res.kind = "Ok"
    /\ res.val = 513
    /\ regs[ctx_slave][8707] = 513

(***************************************************************************)
(* C26.  is_path_completed and is_homing_completed each issue exactly one  *)
(* read of MOTION_STATUS (0x1003) and no write, and return true exactly    *)
(* when bit 0x0020 (path complete), respectively bit 0x0040 (homing        *)
(* complete), is set in the word read; a failed read is returned as the    *)
(* error, never as false.                                                  *)
(***************************************************************************)
C26_CompletionPredicates ==
    op \in {"is_path_completed", "is_homing_completed"} =>
        /\ Len(log) = 1
        /\ log[1].call = "read"
        /\ log[1].addr = 4099
        /\ log[1].value = 1
        /\ log[1].resp = "ok" =>
              /\ res.kind = "Ok"
              /\ res.val = BitIsSet(regs[log[1].slave][4099],
                                    IF op = "is_path_completed" THEN 5 ELSE 6)
        /\ log[1].resp \in {"exc", "err"} => res.kind = "Err"
        /\ res.kind = "Ok" => log[1].resp = "ok"

C26_Witness ==
    /\ op = "is_homing_completed"
    /\ res.kind = "Ok"
    /\ res.val
    /\ regs[ctx_slave][4099] = 114

\* the two composite operations
Applies == {"apply_path_config", "apply_homing_config"}

(***************************************************************************)
(* C29.  Applying the same PathConfig or HomingConfig twice in a row on a  *)
(* channel that acknowledges every write issues the same complete write    *)
(* sequence both times (no write is skipped because the device already     *)
(* holds that value) and leaves the device registers exactly as after the  *)
(* first application.                                                      *)
(***************************************************************************)
C29_ApplyTwice ==
    [][(/\ op \in Applies
        /\ op' = op
        /\ args' = args
        /\ AllAck(log) /\ AllAck(log'))
       => /\ log' = log
          /\ OnlyWrites(log')
          /\ res' = res
          /\ regs' = regs
          /\ res.kind = "Ok" =>
                Len(log') = IF op = "apply_homing_config" THEN 11
                            ELSE IF args.config.pause_time > 0 THEN 7 ELSE 6]_vars

C29_Witness ==
    /\ op = "apply_path_config"
    /\ nops >= 2
    /\ args.config = PathConfig(3, FALSE, 2147483647, 65535, 1, 2, 1)
    /\ AllAck(log)
    /\ Len(log) = 7
    /\ res.kind = "Ok"

\* the public methods of both clients
ClientMethods ==
    {"init", "set_peak_current", "set_motor_inductance", "forced_enable_by_software",
     "save_param_eeprom", "param_reset", "factory_reset", "save_mapping_eeprom",
     "jog_motor", "configure_input", "get_input_status", "get_motion_status",
     "is_path_completed", "is_homing_completed", "set_ctrg_effective_edge",
     "soft_limit_control", "set_soft_limit_max", "set_soft_limit_min",
     "homing_power_up_control", "set_ctrg_trigger_type", "configure_homing",
     "set_homing_position", "set_homing_stop_position", "set_homing_high_velocity",
     "set_homing_low_velocity", "set_homing_acceleration", "set_homing_deceleration",
     "apply_homing_config", "start_homing", "start_path", "stop_motor", "manual_zero",
     "configure_path_motion", "set_path_position", "set_path_velocity",
     "set_path_acceleration", "set_path_deceleration", "set_path_pause_time",
     "apply_path_config", "get_version", "get_current_alarm"}
\* the outcomes the channel gave to the register calls of l, then acknowledgements
Outcomes(l) ==
    [i \in 1..12 |-> IF i <= Len(RegCalls(l)) THEN RegCalls(l)[i].resp ELSE "ok"]

(***************************************************************************)
(* C24.  The non-blocking client (Em2rsClient) and the blocking client     *)
(* (Em2rsSyncClient) are behaviourally identical: for every operation,     *)
(* every argument and every sequence of channel outcomes, both issue the   *)
(* same sequence of channel operations (set-target, reads and writes with  *)
(* the same addresses and values) and return the same result.              *)
(***************************************************************************)
C24_BlockingClientIdentical ==
    [][op' \in ClientMethods =>
          \A r \in {Em2rsSyncClient(op', Start(Outcomes(log')),
                                    IF op' = "init" THEN [self |-> client] ELSE args')} :
              /\ r.log = log'
              /\ r.res = res'
              /\ r.regs = regs'
              /\ r.slave = ctx_slave']_vars

C24_Witness ==
    /\ op = "apply_homing_config"
    /\ Len(log) = 5
    /\ log[5].resp = "err"
    /\ res.kind = "Err"
    /\ regs[ctx_slave][log[1].addr] = log[1].value
    /\ \A r \in {Em2rsSyncClient(op, Start(Outcomes(log)), args)} :
          r.log = log /\ r.res = res /\ r.regs = regs

(***************************************************************************)
(* C31.  The control word written by apply_path_config depends only on the *)
(* absolute/relative flag: it is 0x0001 (position positioning, no          *)
(* interrupt, no overlap, no jump) when absolute_position is true and      *)
(* 0x0041 when it is false; bit 0x0040 set means relative.                 *)
(***************************************************************************)
C31_ApplyPathControlWord ==
    (op = "apply_path_config" /\ args.config.path_id \in 0..8) =>
        /\ Len(log) >= 1
        /\ log[1].call = "write"
        /\ log[1].addr = 25088 + (8 * args.config.path_id)
        /\ log[1].value = IF args.config.absolute_position THEN 1 ELSE 65
        /\ BitIsSet(log[1].value, 6) = ~args.config.absolute_position

C31_Witness ==
    /\ op = "apply_path_config"
    /\ ~args.config.absolute_position
    /\ args.config.path_id = 8
    /\ AllAck(log)
    /\ log[1].value = 65
    /\ regs[ctx_slave][25152] = 65

GlobalBit ==
    [set_ctrg_effective_edge |-> 0, soft_limit_control |-> 1,
     homing_power_up_control |-> 2, set_ctrg_trigger_type |-> 4]
\* the value a call of one of them asks for
Requested(name, a) ==
    CASE name = "set_ctrg_effective_edge" -> a.double_edge
      [] name = "set_ctrg_trigger_type" -> a.level_trigger
      [] OTHER -> a.enable

(***************************************************************************)
(* C33.  Each of set_ctrg_effective_edge, soft_limit_control,              *)
(* homing_power_up_control and set_ctrg_trigger_type reads                 *)
(* PR_GLOBAL_CTRL_FCT (0x6000) once and then writes it once with only its  *)
(* own bit (bit 0, 1, 2 and 4 respectively) set or cleared as requested;   *)
(* the other 15 bits of the written word equal those of the word read, so  *)
(* a call never undoes the setting made by one of the other three.         *)
(***************************************************************************)
C33_OwnBitOnly ==
    [][op' \in DOMAIN GlobalBit =>
          /\ Len(log') >= 1
          /\ log'[1].call = "read"
          /\ log'[1].addr = 24576
          /\ log'[1].value = 1
          /\ Len(Reads(log')) = 1
          /\ log'[1].resp # "ok" => Len(log') = 1
          /\ log'[1].resp = "ok" =>
                /\ Len(log') = 2
                /\ log'[2].call = "write"
                /\ log'[2].addr = 24576
                /\ \A k \in 0..15 :
                      BitIsSet(log'[2].value, k)
                          = IF k = GlobalBit[op'] THEN Requested(op', args')
                            ELSE BitIsSet(regs[ctx_slave][24576], k)]_vars

C33_Witness ==
    /\ op = "set_ctrg_effective_edge"
    /\ args.double_edge
    /\ AllAck(log)
    /\ Len(log) = 2
    /\ log[2].value = 23
    /\ regs[ctx_slave][24576] = 23

\* the operations that read one register and index the response
IndexingMethods ==
    {"get_version", "get_input_status", "get_motion_status", "get_current_alarm",
     "is_path_completed", "is_homing_completed"} \cup DOMAIN GlobalBit

(***************************************************************************)
(* C34.  For every response of the channel to a one-register read,         *)
(* including a successful response that contains no word, the read         *)
(* accessors (get_version, get_input_status, get_motion_status,            *)
(* get_current_alarm, is_path_completed, is_homing_completed) and the four *)
(* PR-global-control setters return either a value or an error; none of    *)
(* them aborts the program.                                                *)
(***************************************************************************)
C34_NeverAborts ==
    op \in IndexingMethods => res.kind \in {"Ok", "Err"}

\* the registers of path i, and the homing registers
PathBlock(i) == {get_path_base(i).val + o : o \in 0..7}
HomingRegisters == 24586..24602
PathIdOf(name, a) == IF name = "apply_path_config" THEN a.config.path_id ELSE a.path_id

(***************************************************************************)
(* C35.  The register blocks of the nine paths (base + 0 .. base + 7 for   *)
(* path ids 0..8, i.e. 0x6200..0x6247) are pairwise disjoint and disjoint  *)
(* from the PR-control, soft-limit and homing registers (0x6000..0x601A);  *)
(* after any sequence of operations, a path operation for path i has       *)
(* changed no register of a path j different from i and no homing          *)
(* register.  The layout of the blocks does not depend on the state, so it *)
(* is examined at the first call.                                          *)
(***************************************************************************)
C35_PathBlocksDisjoint ==
    [][op' \in PathMethods =>
          /\ nops = 0 => \A i \in 0..8 :
                /\ PathBlock(i) \subseteq 25088..25159
                /\ PathBlock(i) \cap (24576..24602) = {}
                /\ \A j \in 0..8 : i # j => PathBlock(i) \cap PathBlock(j) = {}
          /\ \A s \in Slaves : regs'[s] # regs[s] => \A a \in Addrs :
                regs'[s][a] # regs[s][a] =>
                    /\ a \notin HomingRegisters
                    /\ \A j \in 0..8 : a \in PathBlock(j) => j = PathIdOf(op', args')]_vars

C35_Witness ==
    /\ op = "set_path_velocity"
    /\ args.path_id = 8
    /\ AllAck(log)
    /\ regs[ctx_slave][25155] = args.rpm
    /\ regs[ctx_slave][25147] # args.rpm

(***************************************************************************)
(* C36.  configure_path_motion never rejects a jump target: with jump =    *)
(* true the written word has bit 0x4000 set and bits 8..11 equal to        *)
(* jump_to mod 16 (so targets 9..15 are written as given and targets of 16 *)
(* or more wrap), and with jump = false bits 8..11 and bit 0x4000 are zero *)
(* whatever jump_to is.  The word depends on the arguments alone, so the   *)
(* sweep over all 256 targets is made at the first call.                   *)
(***************************************************************************)
C36_JumpTargetWraps ==
    (op = "configure_path_motion" /\ args.path_id \in 0..8) =>
        /\ Len(log) = 1
        /\ log[1].call = "write"
        /\ BitIsSet(log[1].value, 14) = args.jump
        /\ (log[1].value \div 256) % 16 = IF args.jump THEN args.jump_to % 16 ELSE 0
        /\ nops = 1 =>
              \A t \in 0..255, j \in BOOLEAN :
                  \A r \in {configure_path_motion(Start(<<"ok">>), args.path_id,
                                args.motion_type, args.interrupt, args.overlap,
                                args.absolute, j, t)} :
                      /\ Len(r.log) = 1
                      /\ r.res.kind = "Ok"
                      /\ r.log[1].value \in 0..65535
                      /\ BitIsSet(r.log[1].value, 14) = j
                      /\ (r.log[1].value \div 256) % 16 = IF j THEN t % 16 ELSE 0

C36_Witness ==
    /\ op = "configure_path_motion"
    /\ args.path_id = 4
    /\ args.jump
    /\ args.jump_to = 1
    /\ AllAck(log)
    /\ log[1].value = 16384 + 256 + 32 + 64 + 2

(***************************************************************************)
(* C37.  The value start_path writes to PR_CTRL is always in 0x10..0x18    *)
(* and therefore never equals the start-homing (0x20), manual-zero (0x21)  *)
(* or quick-stop (0x40) command value, for any argument; no start_path     *)
(* call can trigger one of those commands.  The value depends on the       *)
(* argument alone, so the sweep over all 256 path ids is made at the first *)
(* call.                                                                   *)
(***************************************************************************)
C37_StartPathNeverOtherCommand ==
    op = "start_path" =>
        /\ \A i \in 1..Len(log) :
              /\ log[i].call = "write"
              /\ log[i].addr = 24578
              /\ log[i].value \in 16..24
              /\ log[i].value \notin {32, 33, 64}
              /\ \A c \in PrControlCommand \ {"RunThePath"} :
                    log[i].value # PrControlCommand_u16(c)
        /\ nops = 1 =>
              \A N \in 0..255 :
                  \A r \in {start_path(Start(<<"ok">>), N)} :
                      \A i \in 1..Len(r.log) :
                          /\ r.log[i].value \in 16..24
                          /\ r.log[i].value \notin {32, 33, 64}

C37_Witness ==
    /\ op = "start_path"
    /\ args.path_id = 0
    /\ AllAck(log)
    /\ log[1].value = 16
    /\ regs[ctx_slave][24578] = 16

\* the most channel operations a call of the method issues
MostCalls(name) ==
    CASE name = "init" -> 4
      [] name = "apply_homing_config" -> 11
      [] name = "apply_path_config" -> 7
      [] OTHER -> 2
\* the calls issued so far, the pending one included, are within the bound
WithinBound ==
    op \in ClientMethods =>
        /\ Len(RegCalls(log)) <= MostCalls(op)
        /\ op \in {"init", "apply_homing_config", "apply_path_config"} =>
              \A i \in 1..Len(log) : IsReg(log[i]) => log[i].call = "write"

(***************************************************************************)
(* C38.  On a channel where every register operation eventually returns    *)
(* (success or failure), every session operation terminates, after a       *)
(* bounded number of channel operations: at most 4 writes for init, 11 for *)
(* apply_homing_config, 7 for apply_path_config, and at most 2 channel     *)
(* operations for every other operation.                                   *)
(***************************************************************************)
C38_Terminates ==
    /\ []WithinBound
    /\ (res.kind = "Running") ~> (res.kind # "Running")

C38_Witness ==
    /\ op = "apply_homing_config"
    /\ res.kind = "Ok"
    /\ Len(log) = 11
    /\ AllAck(log)

====
